---- MODULE Spec2Model ----
(***************************************************************************)
(* Team Coordinator of TarkovTracker (functions/src/index.ts): the four    *)
(* callable operations createTeam, joinTeam, leaveTeam and kickTeamMember, *)
(* each one Firestore transaction over the collections 'system' (one       *)
(* membership document per user) and 'team' (one roster document per       *)
(* team).                                                                  *)
(*                                                                         *)
(* A transaction is modelled as the Firestore server SDK runs it: the body *)
(* reads a snapshot and either throws or stages writes; the commit applies *)
(* the staged writes atomically unless a document the body read was        *)
(* written by another commit in between, in which case the body is run     *)
(* again, at most MaxAttempts times in all, after which runTransaction     *)
(* rejects with the store's (untyped) contention error.  Documents a body  *)
(* writes without having read them are written blindly.                    *)
(***************************************************************************)
EXTENDS Integers, Sequences, FiniteSets, TLC

\* ------------------------------------------------------------------ bounds

Users == {"u1", "u2", "u3", "u4", "u5"}
TeamIds == {"t1", "t2"}

\* Call slots: a call occupies one from its arrival to its return.
Procs == 1 .. 4

\* Calls in flight at one time under Spec.
MaxCalls == 2

\* Body executions one runTransaction call makes before it gives up (the
\* SDK's maxAttempts; index.ts passes no option).
MaxAttempts == 2
\* Clock advances considered.
MaxTicks == 1

\* ------------------------------------------------------- JavaScript values

Undefined == "undefined"
Null == "null"

\* A value as an if-condition: undefined, null and '' are falsy.
Truthy(x) == x \notin {Undefined, Null, ""}

\* An optional number is <<>> (undefined) or <<n>>.
Nullish(opt, dflt) == IF opt = <<>> THEN dflt ELSE opt[1]

\* a || b on optional numbers: 0 and undefined are falsy.
OrElse(opt, dflt) == IF opt = <<>> \/ opt[1] = 0 THEN dflt ELSE opt[1]

\* ------------------------------------------------------------- documents

\* SystemDocData; a user without a system document reads as all-undefined.
SystemDocData(t, l) == [team |-> t, lastLeftTeam |-> l]

NoSystemDoc == SystemDocData(Undefined, <<>>)

\* TeamDocData; exists is DocumentSnapshot.exists.
TeamDocData(o, pw, mm, ms) ==
    [exists |-> TRUE, owner |-> o, password |-> pw, maximumMembers |-> mm, members |-> ms]

NoTeamDoc ==
    [exists |-> FALSE, owner |-> Undefined, password |-> Undefined,
     maximumMembers |-> <<>>, members |-> <<>>]

includes(arr, x) == \E i \in DOMAIN arr : arr[i] = x

\* Variant of arrayUnion: the field is set to the one element.
arrayOfOne(arr, x) == <<x>>

\* FieldValue.arrayUnion: appends the element unless it is already there.
arrayUnion(arr, x) == IF includes(arr, x) THEN arr ELSE Append(arr, x)

\* FieldValue.arrayRemove: removes every occurrence of the element.
arrayRemove(arr, x) == SelectSeq(arr, LAMBDA y : y # x)

VARIABLES system, team, now, ticks, procs, ret, todo, results

vars == <<system, team, now, ticks, procs, ret, todo, results>>

\* -------------------------------------------------------------- requests

\* request.auth: absent, or { uid }.
NoAuth == Undefined

\* request.data: the callable payload may be null (present = FALSE).
NoData == [present |-> FALSE]

CreateTeamData(pw, mm) == [present |-> TRUE, password |-> pw, maximumMembers |-> mm]

JoinTeamData(i, pw) == [present |-> TRUE, id |-> i, password |-> pw]

KickTeamMemberData(k) == [present |-> TRUE, kicked |-> k]

\* Passwords a caller supplies, and the strings the generator can put in a
\* team document.
Passwords == {"p1", "p2"}

\* maximumMembers values a caller passes (none, zero, negative, two).
MaximumMembersInputs == {<<>>, <<0>>, <<-1>>, <<2>>}

\* -------------------------------------------------- errors and outcomes

ErrorCodes ==
    {"unauthenticated", "invalid-argument", "failed-precondition", "not-found",
     "permission-denied", "resource-exhausted", "internal"}

\* new HttpsError(code, message, details?): details is the optional third
\* argument.
HttpsError(code) == [typed |-> TRUE, code |-> code, details |-> Undefined]

\* Any other exception (TypeError, a generator or store failure); code holds
\* what distinguishes it, the text handleTeamError takes as its message.
OtherError(name) == [typed |-> FALSE, code |-> name, details |-> Undefined]

NoError == [typed |-> FALSE, code |-> "none", details |-> Undefined]

\* One execution of a transaction body: it threw, or it staged writes
\* after reading the documents in reads.  createdTeam and finalTeamPassword
\* are the variables createTeam's body assigns outside the transaction.
Throw(err) ==
    [staged |-> FALSE, error |-> err, reads |-> {}, writes |-> <<>>,
     createdTeam |-> "", finalTeamPassword |-> ""]

Stage(rd, wr, ct, fp) ==
    [staged |-> TRUE, error |-> NoError, reads |-> rd, writes |-> wr,
     createdTeam |-> ct, finalTeamPassword |-> fp]

\* Document references.
systemRef(uid) == <<"system", uid>>

teamRef(id) == <<"team", id>>

\* Staged writes of a transaction.
\* transaction.set(teamRef, { owner, password, maximumMembers, members: [owner], createdAt })
SetTeam(id, o, pw, mm) ==
    [w |-> "setTeam", ref |-> teamRef(id), owner |-> o, password |-> pw, maximumMembers |-> mm]

\* transaction.set(teamRef, { members: FieldValue.arrayUnion(uid) }, { merge: true })
MergeArrayUnion(id, uid) == [w |-> "arrayUnion", ref |-> teamRef(id), uid |-> uid]

\* transaction.set(teamRef, { members: FieldValue.arrayRemove(uid) }, { merge: true })
MergeArrayRemove(id, uid) == [w |-> "arrayRemove", ref |-> teamRef(id), uid |-> uid]

\* transaction.delete(teamRef)
DeleteTeam(id) == [w |-> "delete", ref |-> teamRef(id)]

\* transaction.set(systemRef, { team: id }, { merge: true })
MergeTeam(uid, id) == [w |-> "mergeTeam", ref |-> systemRef(uid), team |-> id]

\* transaction.set(systemRef, { team: null, lastLeftTeam: serverTimestamp() }, { merge: true })
MergeLeft(uid) == [w |-> "mergeLeft", ref |-> systemRef(uid)]

\* ------------------------------------------------------------ generators

\* What the random source yields for one body execution: the team id
\* uidgen.generate() returns (any id, used or not; or it throws), and the
\* raw string of the password generator (or it throws).
GenThrows == "throws"

GeneratedPasswords == {"g48chars", "abc", "", GenThrows}

\* String lengths of the raw generator outputs.
length(str) == CASE str = "" -> 0 [] str = "abc" -> 3 [] OTHER -> 48

\* Variant of generateSecurePassword: the raw result is passed on unchecked.
generateSecurePasswordUnchecked(generated) == generated

generateSecurePassword(generated) ==
    IF generated = GenThrows THEN "ERROR_PASS_456"
    ELSE IF Truthy(generated) /\ length(generated) >= 4 THEN generated
    ELSE "DEBUG_PASS_123"

Random == [teamId : TeamIds \cup {GenThrows}, generated : GeneratedPasswords]

\* The draws that matter to createTeam: data.password || generate() calls
\* the password generator only when no password is supplied.
RandomFor(data) ==
    IF data.present /\ Truthy(data.password)
    THEN {r \in Random : r.generated = GenThrows}
    ELSE Random

\* The draw of an operation that uses no generator.
NoRandom == [teamId |-> GenThrows, generated |-> GenThrows]

\* -------------------------------------------------- transaction bodies

CooldownMillis == 5 * 60 * 1000

\* Variant of InCooldown: the comparison includes the end of the window.
InCooldownInclusive(lastLeftTeam, clock) ==
    lastLeftTeam # <<>> /\ lastLeftTeam[1] >= clock - CooldownMillis

\* systemData.lastLeftTeam > fiveMinutesAgo, with now = Timestamp.now()
InCooldown(lastLeftTeam, clock) ==
    lastLeftTeam # <<>> /\ lastLeftTeam[1] > clock - CooldownMillis

\* if (systemData?.team): the caller's membership names a team.
InTeam(systemData) == Truthy(systemData.team)

\* teamData?.password !== data.password
WrongPassword(teamData, data) == teamData.password # data.password

\* Variant of TeamIsFull: the capacity test off by one.
TeamIsOverfull(teamData) == Len(teamData.members) > Nullish(teamData.maximumMembers, 10)

\* (teamData?.members?.length ?? 0) >= (teamData?.maximumMembers ?? 10)
TeamIsFull(teamData) == Len(teamData.members) >= Nullish(teamData.maximumMembers, 10)

\* Variant of DisbandWrites: only the first roster entry (the owner) has its
\* membership reset.
DisbandWritesOwnerOnly(id, members) ==
    [i \in DOMAIN members \cap {1} |-> MergeLeft(members[i])] \o <<DeleteTeam(id)>>

\* Variant of DisbandWrites: the memberships are reset, the team document stays.
DisbandWritesKeepingTeam(id, members) ==
    [i \in DOMAIN members |-> MergeLeft(members[i])]

\* The disband branch: one membership reset per roster entry, then the delete.
DisbandWrites(id, members) ==
    [i \in DOMAIN members |-> MergeLeft(members[i])] \o <<DeleteTeam(id)>>

\* Variant of _leaveTeamLogic: a member who leaves stays on the roster.
LeaveKeepingRosterEntry(userUid, sys, tm) ==
    LET systemData == sys[userUid]
    IN  IF InTeam(systemData)
        THEN LET teamData == tm[systemData.team]
                 rd == {systemRef(userUid), teamRef(systemData.team)}
             IN  IF teamData.owner = userUid
                 THEN Stage(rd, DisbandWrites(systemData.team, teamData.members), "", "")
                 ELSE Stage(rd, <<MergeLeft(userUid)>>, "", "")
        ELSE Throw(HttpsError("failed-precondition"))

\* Variant of _leaveTeamLogic: leaving without a team is a silent success.
LeaveWithoutTeamSucceeds(userUid, sys, tm) ==
    LET systemData == sys[userUid]
    IN  IF InTeam(systemData)
        THEN LET teamData == tm[systemData.team]
                 rd == {systemRef(userUid), teamRef(systemData.team)}
             IN  IF teamData.owner = userUid
                 THEN Stage(rd, DisbandWrites(systemData.team, teamData.members), "", "")
                 ELSE Stage(rd, <<MergeArrayRemove(systemData.team, userUid),
                                  MergeLeft(userUid)>>, "", "")
        ELSE Stage({systemRef(userUid)}, <<>>, "", "")

_leaveTeamLogic(userUid, sys, tm) ==
    LET systemData == sys[userUid]
    IN  IF InTeam(systemData)
        THEN LET teamData == tm[systemData.team]
                 rd == {systemRef(userUid), teamRef(systemData.team)}
             IN  IF teamData.owner = userUid
                 THEN Stage(rd, DisbandWrites(systemData.team, teamData.members), "", "")
                 ELSE Stage(rd, <<MergeArrayRemove(systemData.team, userUid),
                                  MergeLeft(userUid)>>, "", "")
        ELSE Throw(HttpsError("failed-precondition"))

\* Variant of _joinTeamLogic: the caller's membership is not tested.
JoinWithoutMembershipCheck(userUid, data, sys, tm) ==
    IF ~data.present THEN Throw(OtherError("TypeError"))
    ELSE IF ~Truthy(data.id) \/ ~Truthy(data.password)
    THEN Throw(HttpsError("invalid-argument"))
    ELSE LET teamData == tm[data.id]
         IN  IF ~teamData.exists THEN Throw(HttpsError("not-found"))
             ELSE IF WrongPassword(teamData, data)
             THEN Throw(HttpsError("unauthenticated"))
             ELSE IF TeamIsFull(teamData)
             THEN Throw(HttpsError("resource-exhausted"))
             ELSE Stage({systemRef(userUid), teamRef(data.id)},
                        <<MergeArrayUnion(data.id, userUid),
                          MergeTeam(userUid, data.id)>>, "", "")

_joinTeamLogic(userUid, data, sys, tm) ==
    LET systemData == sys[userUid]
    IN  IF InTeam(systemData) THEN Throw(HttpsError("failed-precondition"))
        ELSE IF ~data.present THEN Throw(OtherError("TypeError"))
        ELSE IF ~Truthy(data.id) \/ ~Truthy(data.password)
        THEN Throw(HttpsError("invalid-argument"))
        ELSE LET teamData == tm[data.id]
             IN  IF ~teamData.exists THEN Throw(HttpsError("not-found"))
                 ELSE IF WrongPassword(teamData, data)
                 THEN Throw(HttpsError("unauthenticated"))
                 ELSE IF TeamIsFull(teamData)
                 THEN Throw(HttpsError("resource-exhausted"))
                 ELSE Stage({systemRef(userUid), teamRef(data.id)},
                            <<MergeArrayUnion(data.id, userUid),
                              MergeTeam(userUid, data.id)>>, "", "")

_createTeamLogic(userUid, data, sys, clock, rnd) ==
    LET systemData == sys[userUid]
    IN  IF InTeam(systemData) THEN Throw(HttpsError("failed-precondition"))
        ELSE IF InCooldown(systemData.lastLeftTeam, clock)
        THEN Throw(HttpsError("failed-precondition"))
        ELSE IF rnd.teamId = GenThrows THEN Throw(OtherError("Error"))
        ELSE IF ~data.present THEN Throw(OtherError("TypeError"))
        ELSE LET teamId == rnd.teamId
                 teamPassword == IF Truthy(data.password) THEN data.password
                                 ELSE generateSecurePassword(rnd.generated)
             IN  Stage({systemRef(userUid)},
                       <<SetTeam(teamId, userUid, teamPassword,
                                 <<OrElse(data.maximumMembers, 10)>>),
                         MergeTeam(userUid, teamId)>>,
                       teamId, teamPassword)

\* Variant of _kickTeamMemberLogic: the membership reset goes to the caller's
\* document instead of the kicked user's.
KickResettingCaller(userUid, data, sys, tm) ==
    LET systemData == sys[userUid]
        teamId == systemData.team
    IN  IF ~Truthy(teamId) THEN Throw(HttpsError("failed-precondition"))
        ELSE LET teamData == tm[teamId]
             IN  IF teamData.owner # userUid THEN Throw(HttpsError("permission-denied"))
                 ELSE IF ~includes(teamData.members, data.kicked)
                 THEN Throw(HttpsError("not-found"))
                 ELSE Stage({systemRef(userUid), teamRef(teamId)},
                            <<MergeArrayRemove(teamId, data.kicked),
                              MergeLeft(userUid)>>, "", "")

_kickTeamMemberLogic(userUid, data, sys, tm) ==
    LET systemData == sys[userUid]
        teamId == systemData.team
    IN  IF ~Truthy(teamId) THEN Throw(HttpsError("failed-precondition"))
        ELSE LET teamData == tm[teamId]
             IN  IF teamData.owner # userUid THEN Throw(HttpsError("permission-denied"))
                 ELSE IF ~includes(teamData.members, data.kicked)
                 THEN Throw(HttpsError("not-found"))
                 ELSE Stage({systemRef(userUid), teamRef(teamId)},
                            <<MergeArrayRemove(teamId, data.kicked),
                              MergeLeft(data.kicked)>>, "", "")

\* What runs before the transaction starts: validateAuth, and kickTeamMember's
\* argument checks (which read data.kicked outside the try block).
validateAuth(auth) == IF auth = NoAuth THEN HttpsError("unauthenticated") ELSE NoError

KickArguments(userUid, data) ==
    IF ~data.present THEN OtherError("TypeError")
    ELSE IF ~Truthy(data.kicked) THEN HttpsError("invalid-argument")
    ELSE IF data.kicked = userUid THEN HttpsError("invalid-argument")
    ELSE NoError

\* Variant of BeforeTransaction: kickTeamMember checks its arguments before
\* the caller's identity.
BeforeTransactionArgumentsFirst(op, auth, data) ==
    IF op = "kickTeamMember" /\ KickArguments(auth, data).code # "none"
    THEN KickArguments(auth, data)
    ELSE validateAuth(auth)

BeforeTransaction(op, auth, data) ==
    IF validateAuth(auth).typed THEN validateAuth(auth)
    ELSE IF op = "kickTeamMember" THEN KickArguments(auth, data)
    ELSE NoError

\* The operations that run _createTeamLogic: the callable and the HTTP
\* entry point.
CreateOps == {"createTeam", "createTeamHttp"}

\* Variant of UpdateFunction: the HTTP entry point creates the team without
\* looking at the cooldown.
UpdateFunctionHttpWithoutCooldown(op, userUid, data, sys, tm, clock, rnd) ==
    CASE op = "leaveTeam" -> _leaveTeamLogic(userUid, sys, tm)
      [] op = "joinTeam" -> _joinTeamLogic(userUid, data, sys, tm)
      [] op = "createTeam" -> _createTeamLogic(userUid, data, sys, clock, rnd)
      [] op = "createTeamHttp" ->
           _createTeamLogic(userUid, data,
                            [sys EXCEPT ![userUid].lastLeftTeam = <<>>], clock, rnd)
      [] op = "kickTeamMember" -> _kickTeamMemberLogic(userUid, data, sys, tm)

\* Variant of UpdateFunction: joinTeam refuses a caller in cooldown as
\* createTeam does.
UpdateFunctionJoinInCooldown(op, userUid, data, sys, tm, clock, rnd) ==
    CASE op = "leaveTeam" -> _leaveTeamLogic(userUid, sys, tm)
      [] op = "joinTeam" ->
           IF ~InTeam(sys[userUid]) /\ InCooldown(sys[userUid].lastLeftTeam, clock)
           THEN Throw(HttpsError("failed-precondition"))
           ELSE _joinTeamLogic(userUid, data, sys, tm)
      [] op \in CreateOps -> _createTeamLogic(userUid, data, sys, clock, rnd)
      [] op = "kickTeamMember" -> _kickTeamMemberLogic(userUid, data, sys, tm)

\* The body passed to db.runTransaction, per operation.
UpdateFunction(op, userUid, data, sys, tm, clock, rnd) ==
    CASE op = "leaveTeam" -> _leaveTeamLogic(userUid, sys, tm)
      [] op = "joinTeam" -> _joinTeamLogic(userUid, data, sys, tm)
      [] op \in CreateOps -> _createTeamLogic(userUid, data, sys, clock, rnd)
      [] op = "kickTeamMember" -> _kickTeamMemberLogic(userUid, data, sys, tm)

\* catch (e) { handleTeamError(...) }: a typed error passes, anything else
\* becomes 'internal' with the message of the original error as details.
handleTeamError(error) ==
    IF error.typed THEN error
    ELSE [HttpsError("internal") EXCEPT !.details = error.code]

\* joinTeam's catch block builds its log context from data.id before it
\* calls handleTeamError: with a null payload that read throws in turn.
Caught(op, data, error) ==
    IF op = "joinTeam" /\ ~data.present THEN OtherError("TypeError")
    ELSE handleTeamError(error)

\* onCall: what the callable framework sends for a rejected handler.
onCall(error) == IF error.typed THEN error.code ELSE "internal"

\* The details the framework sends along: those of an HttpsError, none for
\* any other exception.
onCallDetails(error) == IF error.typed THEN error.details ELSE Undefined

\* ------------------------------------------------------------- the store

\* Variant of ApplyWrite: the set of { team: id } on a system document is
\* done without merge, so it replaces the whole document.
ApplyWriteReplacingSystem(db, wr, ts) ==
    CASE wr.w = "setTeam" ->
           [db EXCEPT !.team[wr.ref[2]] =
               TeamDocData(wr.owner, wr.password, wr.maximumMembers, <<wr.owner>>)]
      [] wr.w = "arrayUnion" ->
           [db EXCEPT !.team[wr.ref[2]] =
               [@ EXCEPT !.exists = TRUE, !.members = arrayUnion(@, wr.uid)]]
      [] wr.w = "arrayRemove" ->
           [db EXCEPT !.team[wr.ref[2]] =
               [@ EXCEPT !.exists = TRUE, !.members = arrayRemove(@, wr.uid)]]
      [] wr.w = "delete" -> [db EXCEPT !.team[wr.ref[2]] = NoTeamDoc]
      [] wr.w = "mergeTeam" ->
           [db EXCEPT !.system[wr.ref[2]] = SystemDocData(wr.team, <<>>)]
      [] wr.w = "mergeLeft" ->
           [db EXCEPT !.system[wr.ref[2]] = SystemDocData(Null, <<ts>>)]

\* The store's effect of one staged write; ts is the commit's server time.
ApplyWrite(db, wr, ts) ==
    CASE wr.w = "setTeam" ->
           [db EXCEPT !.team[wr.ref[2]] =
               TeamDocData(wr.owner, wr.password, wr.maximumMembers, <<wr.owner>>)]
      [] wr.w = "arrayUnion" ->
           [db EXCEPT !.team[wr.ref[2]] =
               [@ EXCEPT !.exists = TRUE, !.members = arrayUnion(@, wr.uid)]]
      [] wr.w = "arrayRemove" ->
           [db EXCEPT !.team[wr.ref[2]] =
               [@ EXCEPT !.exists = TRUE, !.members = arrayRemove(@, wr.uid)]]
      [] wr.w = "delete" -> [db EXCEPT !.team[wr.ref[2]] = NoTeamDoc]
      [] wr.w = "mergeTeam" -> [db EXCEPT !.system[wr.ref[2]].team = wr.team]
      [] wr.w = "mergeLeft" ->
           [db EXCEPT !.system[wr.ref[2]] = SystemDocData(Null, <<ts>>)]

RECURSIVE ApplyWrites(_, _, _)
ApplyWrites(db, writes, ts) ==
    IF writes = <<>> THEN db
    ELSE ApplyWrites(ApplyWrite(db, Head(writes), ts), Tail(writes), ts)

WrittenRefs(writes) == {writes[i].ref : i \in DOMAIN writes}

\* Variants of Conflicts: a store that versions only team documents, and one
\* that lets every commit through.
ConflictsOnTeamsOnly(reads, writes) ==
    \E ref \in reads \cap WrittenRefs(writes) : ref[1] = "team"

ConflictsNever(reads, writes) == FALSE

\* A pending transaction must run again when a commit wrote a document it read.
Conflicts(reads, writes) == reads \cap WrittenRefs(writes) # {}

\* ------------------------------------------------------------ call state

Tags == {"a", "b", "c", "d", "e"}

Free == "free"

IdleProc == [pc |-> "idle"]

\* A call whose transaction body has staged its writes and awaits the commit.
Pending(tag, op, auth, data, attempts, out) ==
    [pc |-> "tx", tag |-> tag, op |-> op, auth |-> auth, data |-> data,
     attempts |-> attempts, invalid |-> FALSE, reads |-> out.reads,
     writes |-> out.writes, createdTeam |-> out.createdTeam,
     finalTeamPassword |-> out.finalTeamPassword]

NoRet == [code |-> "none"]

\* What the call that ended in the last step returned: code is "ok" or the
\* error code the caller receives; typed tells whether the handler itself
\* threw an HttpsError and details is what it carries as details; attempts
\* counts the executions of the transaction body; team and password are
\* createTeam's result.
Ret(tag, op, auth, data, attempts, code, typed, details, tm, pw) ==
    [code |-> code, tag |-> tag, op |-> op, auth |-> auth, data |-> data,
     attempts |-> attempts, typed |-> typed, details |-> details,
     team |-> tm, password |-> pw]

Record(tag, code) == results' = IF tag = Free THEN results ELSE [results EXCEPT ![tag] = code]

\* Variant of Reject: the writes staged by the failed attempt are not
\* rolled back.
RejectKeepingWrites(p, tag, op, auth, data, attempts, error) ==
    /\ ret' = Ret(tag, op, auth, data, attempts, onCall(error), error.typed,
                   onCallDetails(error), "", "")
    /\ Record(tag, onCall(error))
    /\ procs' = [procs EXCEPT ![p] = IdleProc]
    /\ LET db == IF procs[p].pc = "tx"
                 THEN ApplyWrites([system |-> system, team |-> team], procs[p].writes, now)
                 ELSE [system |-> system, team |-> team]
       IN  system' = db.system /\ team' = db.team

\* The call rejects with error: nothing is written.
Reject(p, tag, op, auth, data, attempts, error) ==
    /\ ret' = Ret(tag, op, auth, data, attempts, onCall(error), error.typed,
                   onCallDetails(error), "", "")
    /\ Record(tag, onCall(error))
    /\ procs' = [procs EXCEPT ![p] = IdleProc]
    /\ UNCHANGED <<system, team>>

\* Variant of RunTransaction: createdTeam and finalTeamPassword keep the
\* values of the first execution of the body.
RunTransactionKeepingFirstResult(p, tag, op, auth, data, rnd, attempts) ==
    LET out == UpdateFunction(op, auth, data, system, team, now, rnd)
        kept == IF attempts > 1
                THEN [out EXCEPT !.createdTeam = procs[p].createdTeam,
                                 !.finalTeamPassword = procs[p].finalTeamPassword]
                ELSE out
    IN  IF out.staged
        THEN /\ procs' = [procs EXCEPT ![p] = Pending(tag, op, auth, data, attempts, kept)]
             /\ ret' = NoRet
             /\ UNCHANGED <<system, team, results>>
        ELSE Reject(p, tag, op, auth, data, attempts, Caught(op, data, out.error))

\* One execution of the transaction body against the current documents.
RunTransaction(p, tag, op, auth, data, rnd, attempts) ==
    LET out == UpdateFunction(op, auth, data, system, team, now, rnd)
    IN  IF out.staged
        THEN /\ procs' = [procs EXCEPT ![p] = Pending(tag, op, auth, data, attempts, out)]
             /\ ret' = NoRet
             /\ UNCHANGED <<system, team, results>>
        ELSE Reject(p, tag, op, auth, data, attempts, Caught(op, data, out.error))

\* A call arrives: the checks before the transaction, then the first
\* execution of the body.
Begin(p, tag, op, auth, data, rnd) ==
    /\ ret = NoRet
    /\ procs[p].pc = "idle"
    /\ \A q \in Procs : q < p => procs[q].pc # "idle"
    /\ LET pre == BeforeTransaction(op, auth, data)
       IN  IF pre.code # "none"
           THEN Reject(p, tag, op, auth, data, 0, pre)
           ELSE RunTransaction(p, tag, op, auth, data, rnd, 1)
    /\ UNCHANGED <<now, ticks>>

\* The commit of a transaction none of whose reads was overwritten.
Commit(p) ==
    /\ ret = NoRet
    /\ procs[p].pc = "tx"
    /\ ~procs[p].invalid
    /\ LET c == procs[p]
           db == ApplyWrites([system |-> system, team |-> team], c.writes, now)
       IN  /\ system' = db.system
           /\ team' = db.team
           /\ procs' = [q \in Procs |->
                  IF q = p THEN IdleProc
                  ELSE IF procs[q].pc = "tx" /\ Conflicts(procs[q].reads, c.writes)
                  THEN [procs[q] EXCEPT !.invalid = TRUE]
                  ELSE procs[q]]
           /\ ret' = Ret(c.tag, c.op, c.auth, c.data, c.attempts, "ok", TRUE, Undefined,
                         c.createdTeam, c.finalTeamPassword)
           /\ Record(c.tag, "ok")
    /\ UNCHANGED <<now, ticks, todo>>

\* Variant of Retry: the attempts are not counted, so the call never gives up.
RetryWithoutCounting(p) ==
    /\ ret = NoRet
    /\ procs[p].pc = "tx"
    /\ procs[p].invalid
    /\ \E rnd \in (IF procs[p].op \in CreateOps THEN RandomFor(procs[p].data)
                   ELSE {NoRandom}) :
          RunTransaction(p, procs[p].tag, procs[p].op, procs[p].auth, procs[p].data,
                         rnd, 1)
    /\ UNCHANGED <<now, ticks, todo>>

\* The commit failed on a conflict: the body runs again on fresh documents.
Retry(p) ==
    /\ ret = NoRet
    /\ procs[p].pc = "tx"
    /\ procs[p].invalid
    /\ procs[p].attempts < MaxAttempts
    /\ \E rnd \in (IF procs[p].op \in CreateOps THEN RandomFor(procs[p].data)
                   ELSE {NoRandom}) :
          RunTransaction(p, procs[p].tag, procs[p].op, procs[p].auth, procs[p].data,
                         rnd, procs[p].attempts + 1)
    /\ UNCHANGED <<now, ticks, todo>>

\* The last attempt failed on a conflict: runTransaction rejects with the
\* store's contention error, which is no HttpsError.
GiveUp(p) ==
    /\ ret = NoRet
    /\ procs[p].pc = "tx"
    /\ procs[p].invalid
    /\ procs[p].attempts = MaxAttempts
    /\ Reject(p, procs[p].tag, procs[p].op, procs[p].auth, procs[p].data,
              procs[p].attempts,
              Caught(procs[p].op, procs[p].data, OtherError("ABORTED")))
    /\ UNCHANGED <<now, ticks, todo>>

\* The response of the call that just ended reaches its caller.
Respond ==
    /\ ret # NoRet
    /\ ret' = NoRet
    /\ UNCHANGED <<system, team, now, ticks, procs, todo, results>>

\* ------------------------------------------------------------- the clock

\* Time passes by d milliseconds.
Tick(d) ==
    /\ ret = NoRet
    /\ ticks < MaxTicks
    /\ now' = now + d
    /\ ticks' = ticks + 1
    /\ UNCHANGED <<system, team, procs, ret, todo, results>>

\* The clock reaches the later time t.
Elapse(t) ==
    /\ ret = NoRet
    /\ t > now
    /\ now' = t
    /\ UNCHANGED <<system, team, ticks, procs, ret, todo, results>>

\* ------------------------------------------------------- the operations

\* The exported callables; auths and datas are the requests considered.
createTeam(p, auths, datas) ==
    /\ \E auth \in auths, data \in datas :
       \E rnd \in RandomFor(data) : Begin(p, Free, "createTeam", auth, data, rnd)
    /\ UNCHANGED todo

joinTeam(p, auths, datas) ==
    /\ \E auth \in auths, data \in datas :
          Begin(p, Free, "joinTeam", auth, data, NoRandom)
    /\ UNCHANGED todo

leaveTeam(p, auths) ==
    /\ \E auth \in auths : Begin(p, Free, "leaveTeam", auth, NoData, NoRandom)
    /\ UNCHANGED todo

kickTeamMember(p, auths, datas) ==
    /\ \E auth \in auths, data \in datas :
          Begin(p, Free, "kickTeamMember", auth, data, NoRandom)
    /\ UNCHANGED todo

\* An HTTP request: its method, the token of its Authorization header
\* (absent, or the uid it verifies as, or one verifyIdToken rejects) and its
\* body.
HttpRequest(method, token, body) == [method |-> method, token |-> token, body |-> body]

InvalidToken == "invalid"

\* admin.auth().verifyIdToken: the uid of a valid token, or it throws.
verifyIdToken(token) == IF token \in Users THEN token ELSE GenThrows

\* createTeamHttp answers without calling _createTeamLogic; exit names the
\* return statement taken.
Answer(p, req, exit) ==
    /\ ret = NoRet
    /\ procs[p].pc = "idle"
    /\ \A q \in Procs : q < p => procs[q].pc # "idle"
    /\ ret' = Ret(Free, "createTeamHttp", req.token, req.body, 0, exit, FALSE,
                   Undefined, "", "")
    /\ UNCHANGED <<system, team, now, ticks, procs, results>>

\* The HTTP entry point of createTeam.
createTeamHttp(p, reqs) ==
    /\ \E req \in reqs :
          IF req.method = "OPTIONS" THEN Answer(p, req, "preflight")
          ELSE IF req.method # "POST" THEN Answer(p, req, "method-not-allowed")
          ELSE IF ~Truthy(req.token) THEN Answer(p, req, "authentication-required")
          ELSE IF verifyIdToken(req.token) = GenThrows THEN Answer(p, req, "token-error")
          ELSE \E rnd \in RandomFor(req.body) :
                  Begin(p, Free, "createTeamHttp", verifyIdToken(req.token), req.body, rnd)
    /\ UNCHANGED todo

\* res.status(...): the status createTeamHttp answers with.
HttpStatus(r) ==
    CASE r.code \in {"preflight", "ok"} -> 200
      [] r.code = "method-not-allowed" -> 405
      [] r.code = "authentication-required" -> 401
      [] r.code \in ErrorCodes /\ r.typed -> 400
      [] OTHER -> 500

\* One of the calls of todo arrives.
Scripted(p) ==
    \E c \in todo :
       /\ \E rnd \in (IF c.op = "createTeam" THEN RandomFor(c.data) ELSE {NoRandom}) :
             Begin(p, c.tag, c.op, c.auth, c.data, rnd)
       /\ todo' = todo \ {c}

Arrive == \E p \in Procs : Scripted(p)

Init ==
    /\ system = [u \in Users |-> NoSystemDoc]
    /\ team = [t \in TeamIds |-> NoTeamDoc]
    /\ now = 0
    /\ ticks = 0
    /\ procs = [p \in Procs |-> IdleProc]
    /\ ret = NoRet
    /\ todo = {}
    /\ results = [t \in Tags |-> "none"]

CommitStep == \E p \in Procs : Commit(p)

RetryStep == \E p \in Procs : Retry(p)

GiveUpStep == \E p \in Procs : GiveUp(p)

\* ------------------------------------------------------------------------
\* Spec: concurrent calls of the four operations by two users, on teams
\* with one password and a capacity of one or of the default.

Callers == {"u1", "u2"}

CreateRequests == {CreateTeamData("p1", mm) : mm \in {<<>>, <<1>>}}

JoinRequests == {JoinTeamData(i, pw) : i \in TeamIds, pw \in Passwords}

KickRequests == {KickTeamMemberData(k) : k \in Callers}

Create == \E p \in 1 .. MaxCalls : createTeam(p, Callers, CreateRequests)

Join == \E p \in 1 .. MaxCalls : joinTeam(p, Callers, JoinRequests)

Leave == \E p \in 1 .. MaxCalls : leaveTeam(p, Callers)

Kick == \E p \in 1 .. MaxCalls : kickTeamMember(p, Callers, KickRequests)

CooldownPasses == Tick(CooldownMillis)

Next ==
    \/ Create
    \/ Join
    \/ Leave
    \/ Kick
    \/ CommitStep
    \/ RetryStep
    \/ GiveUpStep
    \/ Respond
    \/ CooldownPasses

Spec == Init /\ [][Next]_vars

\* ------------------------------------------------------------------------
\* SpecRequests: calls one at a time, with every shape of request: no
\* caller identity, no payload, missing fields, any maximumMembers.

AnyCaller == {"u1", "u2", NoAuth}

AnyCreateRequest ==
    {NoData} \cup {CreateTeamData(pw, mm) : pw \in {"p1", Undefined, ""},
                                           mm \in MaximumMembersInputs}

AnyJoinRequest ==
    {NoData} \cup {JoinTeamData(i, pw) : i \in TeamIds \cup {Undefined},
                                        pw \in {"p1", "p2", Undefined, ""}}

AnyKickRequest == {NoData} \cup {KickTeamMemberData(k) : k \in {"u1", "u2", Undefined}}

CreateCall == createTeam(1, AnyCaller, AnyCreateRequest)

JoinCall == joinTeam(1, AnyCaller, AnyJoinRequest)

LeaveCall == leaveTeam(1, AnyCaller)

KickCall == kickTeamMember(1, AnyCaller, AnyKickRequest)

CommitCall == Commit(1)

NextRequests ==
    \/ CreateCall
    \/ JoinCall
    \/ LeaveCall
    \/ KickCall
    \/ CommitCall
    \/ Respond

SpecRequests == Init /\ [][NextRequests]_vars

\* ------------------------------------------------------------------------
\* SpecJoinRace: team t1 of u1 with maximumMembers = RaceCapacity, and the
\* users of Joiners, none in a team, each calling joinTeam once with the
\* team's password, all calls in flight together.

RaceCapacity == 3

Joiners == {"u2", "u3", "u4", "u5"}

TagOf(u) ==
    CASE u = "u2" -> "a" [] u = "u3" -> "b" [] u = "u4" -> "c" [] u = "u5" -> "d"

InitJoinRace ==
    /\ system = [u \in Users |-> IF u = "u1" THEN SystemDocData("t1", <<>>) ELSE NoSystemDoc]
    /\ team = [t \in TeamIds |->
                 IF t = "t1" THEN TeamDocData("u1", "p1", <<RaceCapacity>>, <<"u1">>)
                 ELSE NoTeamDoc]
    /\ now = 0
    /\ ticks = 0
    /\ procs = [p \in Procs |-> IdleProc]
    /\ ret = NoRet
    /\ todo = {[tag |-> TagOf(u), op |-> "joinTeam", auth |-> u,
                data |-> JoinTeamData("t1", "p1")] : u \in Joiners}
    /\ results = [t \in Tags |-> "none"]

NextJoinRace ==
    \/ Arrive
    \/ CommitStep
    \/ RetryStep
    \/ GiveUpStep
    \/ Respond

SpecJoinRace == InitJoinRace /\ [][NextJoinRace]_vars

\* ------------------------------------------------------------------------
\* SpecDisband: u1 owns team t1 with member u2, u3 owns team t2, u4 and u5
\* are in no team.  Once each, in any order and overlap: u1 leaves, u5 and
\* u3 join t1 with its password, u4 creates a team.

InitDisband ==
    /\ system = [u \in Users |->
                   CASE u \in {"u1", "u2"} -> SystemDocData("t1", <<>>)
                     [] u = "u3" -> SystemDocData("t2", <<>>)
                     [] OTHER -> NoSystemDoc]
    /\ team = [t \in TeamIds |->
                 IF t = "t1" THEN TeamDocData("u1", "p1", <<10>>, <<"u1", "u2">>)
                 ELSE TeamDocData("u3", "p2", <<10>>, <<"u3">>)]
    /\ now = 0
    /\ ticks = 0
    /\ procs = [p \in Procs |-> IdleProc]
    /\ ret = NoRet
    /\ todo = {[tag |-> "a", op |-> "leaveTeam", auth |-> "u1", data |-> NoData],
               [tag |-> "b", op |-> "joinTeam", auth |-> "u5", data |-> JoinTeamData("t1", "p1")],
               [tag |-> "c", op |-> "joinTeam", auth |-> "u3", data |-> JoinTeamData("t1", "p1")],
               [tag |-> "d", op |-> "createTeam", auth |-> "u4",
                data |-> CreateTeamData("p1", <<>>)]}
    /\ results = [t \in Tags |-> "none"]

NextDisband ==
    \/ Arrive
    \/ CommitStep
    \/ RetryStep
    \/ GiveUpStep
    \/ Respond

SpecDisband == InitDisband /\ [][NextDisband]_vars

\* ------------------------------------------------------------------------
\* SpecRoster: team t1 of u1 with the members u2 and u3; the three of them
\* leave, kick one another and join t1 again, concurrently, while time
\* passes.

Members == {"u1", "u2", "u3"}

InitRoster ==
    /\ system = [u \in Users |-> IF u \in Members THEN SystemDocData("t1", <<>>)
                                 ELSE NoSystemDoc]
    /\ team = [t \in TeamIds |->
                 IF t = "t1" THEN TeamDocData("u1", "p1", <<10>>, <<"u1", "u2", "u3">>)
                 ELSE NoTeamDoc]
    /\ now = 0
    /\ ticks = 0
    /\ procs = [p \in Procs |-> IdleProc]
    /\ ret = NoRet
    /\ todo = {}
    /\ results = [t \in Tags |-> "none"]

RejoinRequests == {JoinTeamData("t1", "p1")}

MemberKickRequests == {KickTeamMemberData(k) : k \in Members}

MemberJoins == \E p \in 1 .. MaxCalls : joinTeam(p, Members, RejoinRequests)

MemberLeaves == \E p \in 1 .. MaxCalls : leaveTeam(p, Members)

MemberKicks == \E p \in 1 .. MaxCalls : kickTeamMember(p, Members, MemberKickRequests)

NextRoster ==
    \/ MemberJoins
    \/ MemberLeaves
    \/ MemberKicks
    \/ CommitStep
    \/ RetryStep
    \/ GiveUpStep
    \/ Respond
    \/ CooldownPasses

SpecRoster == InitRoster /\ [][NextRoster]_vars

\* ------------------------------------------------------------------------
\* SpecCreateRetry: u3 owns team t2; u1, in no team, calls createTeam
\* without a password and, in any order and overlap, joins t2 twice and
\* leaves once, while time passes: the createTeam transaction meets write
\* conflicts on u1's membership document.

InitCreateRetry ==
    /\ system = [u \in Users |-> IF u = "u3" THEN SystemDocData("t2", <<>>) ELSE NoSystemDoc]
    /\ team = [t \in TeamIds |->
                 IF t = "t2" THEN TeamDocData("u3", "p2", <<10>>, <<"u3">>) ELSE NoTeamDoc]
    /\ now = 0
    /\ ticks = 0
    /\ procs = [p \in Procs |-> IdleProc]
    /\ ret = NoRet
    /\ todo = {[tag |-> "a", op |-> "createTeam", auth |-> "u1",
                data |-> CreateTeamData(Undefined, <<>>)],
               [tag |-> "b", op |-> "joinTeam", auth |-> "u1", data |-> JoinTeamData("t2", "p2")],
               [tag |-> "c", op |-> "leaveTeam", auth |-> "u1", data |-> NoData],
               [tag |-> "d", op |-> "joinTeam", auth |-> "u1", data |-> JoinTeamData("t2", "p2")]}
    /\ results = [t \in Tags |-> "none"]

NextCreateRetry ==
    \/ Arrive
    \/ CommitStep
    \/ RetryStep
    \/ GiveUpStep
    \/ Respond
    \/ CooldownPasses

SpecCreateRetry == InitCreateRetry /\ [][NextCreateRetry]_vars

\* ------------------------------------------------------------------------
\* SpecCooldown: calls one at a time by two users, with a clock that stops
\* just before, at and just after the end of a cooldown window.

ClockValues == {1, CooldownMillis - 1, CooldownMillis, CooldownMillis + 1}

TimedCreate == createTeam(1, Callers, CreateRequests)

TimedJoin == joinTeam(1, Callers, JoinRequests)

TimedLeave == leaveTeam(1, Callers)

TimedKick == kickTeamMember(1, Callers, KickRequests)

TimePasses == \E t \in ClockValues : Elapse(t)

NextCooldown ==
    \/ TimedCreate
    \/ TimedJoin
    \/ TimedLeave
    \/ TimedKick
    \/ CommitCall
    \/ Respond
    \/ TimePasses

SpecCooldown == Init /\ [][NextCooldown]_vars

\* ------------------------------------------------------------------------
\* Properties.

\* The step is the return of a call that arrived in this very step (it was
\* refused before or in the first execution of its transaction body).
ArrivedAndReturned == ret = NoRet /\ ret' # NoRet /\ procs' = procs

\* The step is the return of a call (at its arrival, at a commit, after a
\* retry, or on giving up).
Returned == ret = NoRet /\ ret' # NoRet

Roster(t) == {team[t].members[i] : i \in DOMAIN team[t].members}

\* C1: every user's membership teamId is absent or null, or names a team
\* that exists and whose members contain that user.
C1_MembershipNamesRoster ==
    \A u \in Users :
        InTeam(system[u]) =>
            /\ team[system[u].team].exists
            /\ u \in Roster(system[u].team)

\* C2: a team never has more members than its maximumMembers, for every
\* maximumMembers value a caller passes to createTeam.
C2_RosterWithinMaximum ==
    \A t \in TeamIds :
        team[t].exists => Len(team[t].members) <= Nullish(team[t].maximumMembers, 10)

\* C4: no user is in the members of two different teams, also when the
\* same user has a createTeam and a joinTeam (or two of either) in flight.
C4_NoDoubleMembership ==
    \A u \in Users : \A t1, t2 \in TeamIds :
        (u \in Roster(t1) /\ u \in Roster(t2)) => t1 = t2

\* A call of a user who got into a team while that call was in flight was
\* run again and refused.
C4_Witness ==
    /\ ret # NoRet
    /\ ret.op \in {"createTeam", "joinTeam"}
    /\ ret.attempts = 2
    /\ ret.code = "failed-precondition"
    /\ \E t \in TeamIds : ret.auth \in Roster(t)

\* C5: a createTeam or joinTeam call by a user whose membership already has
\* a teamId fails with failed-precondition and leaves every record unchanged.
C5_MemberIsRefused ==
    [][(/\ ArrivedAndReturned
        /\ ret'.op \in {"createTeam", "joinTeam"}
        /\ ret'.auth \in Users
        /\ InTeam(system[ret'.auth]))
       => (/\ ret'.code = "failed-precondition"
           /\ system' = system
           /\ team' = team)]_vars

\* --- the join race (SpecJoinRace)

RaceDone == todo = {} /\ ret = NoRet /\ \A p \in Procs : procs[p].pc = "idle"

RaceTags == {TagOf(u) : u \in Joiners}

Outcomes(code) == {t \in RaceTags : results[t] = code}

\* C3 as claimed: of N concurrent joins by team-less users with the right
\* password against a team of capacity K < N, exactly K succeed, the other
\* N - K fail with resource-exhausted, and the team ends with K members.
C3_ExactlyCapacityJoin ==
    RaceDone =>
        /\ Cardinality(Outcomes("ok")) = RaceCapacity
        /\ Cardinality(Outcomes("resource-exhausted")) = Cardinality(Joiners) - RaceCapacity
        /\ Len(team["t1"].members) = RaceCapacity

\* C3, amended: the team already holds its owner, so the joins that succeed
\* are at most the free places K - 1; the roster ends with the owner and the
\* successful joiners; every other join fails with resource-exhausted, or
\* with internal when its transaction ran out of attempts; if none ran out,
\* the free places are all taken and the team ends with exactly K members.
C3_JoinsFillFreePlaces ==
    RaceDone =>
        /\ Cardinality(Outcomes("ok")) <= RaceCapacity - 1
        /\ Roster("t1") = {"u1"} \cup {u \in Joiners : results[TagOf(u)] = "ok"}
        /\ Len(team["t1"].members) = 1 + Cardinality(Outcomes("ok"))
        /\ RaceTags = Outcomes("ok") \cup Outcomes("resource-exhausted") \cup Outcomes("internal")
        /\ Outcomes("internal") = {} =>
              /\ Cardinality(Outcomes("ok")) = RaceCapacity - 1
              /\ Len(team["t1"].members) = RaceCapacity
        /\ \A u \in Joiners : system[u].team = (IF results[TagOf(u)] = "ok" THEN "t1" ELSE Undefined)

\* The race is over: a join was refused for want of room and another one
\* ran out of attempts.
C3_Witness ==
    /\ RaceDone
    /\ Outcomes("resource-exhausted") # {}
    /\ Outcomes("internal") # {}
    /\ Outcomes("ok") # {}

\* --- atomicity

\* The outcome of the returning call is the outcome of its transaction body
\* run alone on the documents as they are at this step.
SerialOutcome ==
    \E rnd \in Random \cup {NoRandom} :
        LET out == UpdateFunction(ret'.op, ret'.auth, ret'.data, system, team, now, rnd)
            db == ApplyWrites([system |-> system, team |-> team], out.writes, now)
        IN  IF out.staged
            THEN /\ ret'.code = "ok"
                 /\ system' = db.system
                 /\ team' = db.team
                 /\ ret'.team = out.createdTeam
                 /\ ret'.password = out.finalTeamPassword
            ELSE /\ ret'.code = onCall(Caught(ret'.op, ret'.data, out.error))
                 /\ system' = system
                 /\ team' = team

\* The returning call gave up after its last attempt met a conflict.
Exhausted ==
    /\ \E p \in Procs :
          /\ procs[p].pc = "tx"
          /\ procs[p].invalid
          /\ procs[p].attempts = MaxAttempts
          /\ procs'[p] = IdleProc
    /\ ret'.code = "internal"
    /\ system' = system
    /\ team' = team

\* C6 as claimed: every concurrent execution is equivalent to a serial one,
\* each call taking effect alone at the step it returns; the retries the
\* store makes are not observable.
C6_RetriesNotObservable ==
    [][(Returned /\ ret'.attempts >= 1) => SerialOutcome]_vars

\* C6, amended: every call whose transaction does not run out of attempts
\* takes effect alone at the step it returns, with the outcome its body has
\* on the documents of that step; a call whose transaction runs out of
\* attempts is observable: it fails with internal and writes nothing.
C6_SerialUnlessExhausted ==
    [][(Returned /\ ret'.attempts >= 1) => (SerialOutcome \/ Exhausted)]_vars

\* A transaction met a conflict, ran again and committed.
C6_Witness ==
    /\ ret # NoRet
    /\ ret.code = "ok"
    /\ ret.attempts = 2

\* C7: a call that returns an error has written nothing: the team and
\* membership records change only in the step in which some call returns
\* success, never in a step that stages writes or returns an error, also
\* when the error comes after writes were staged.
C7_ErrorWritesNothing ==
    [][/\ (Returned /\ ret'.code # "ok") => (system' = system /\ team' = team)
       /\ (system' # system \/ team' # team) => (Returned /\ ret'.code = "ok")]_vars

\* A call fails after its transaction body had staged writes.
C7_Witness ==
    /\ ret # NoRet
    /\ ret.op = "leaveTeam"
    /\ ret.code = "internal"
    /\ ret.attempts = MaxAttempts

\* --- joining

RosterOf(tm, t) == {tm[t].members[i] : i \in DOMAIN tm[t].members}

\* C10: a joinTeam succeeds only if the supplied password equals the team's
\* stored password and the team has fewer members than maximumMembers in
\* the snapshot it commits against; a user enters a roster only as the
\* creator of the team or through such a join.
C10_JoinNeedsPasswordAndRoom ==
    [][/\ \A t \in TeamIds : \A u \in RosterOf(team', t) \ RosterOf(team, t) :
             /\ Returned
             /\ ret'.code = "ok"
             /\ ret'.auth = u
             /\ \/ ret'.op = "createTeam" /\ ret'.team = t /\ team'[t].owner = u
                \/ ret'.op = "joinTeam" /\ ret'.data.id = t
       /\ (Returned /\ ret'.op = "joinTeam" /\ ret'.code = "ok") =>
             LET snapshot == team[ret'.data.id]
             IN  /\ snapshot.exists
                 /\ ret'.data.password = snapshot.password
                 /\ Len(snapshot.members) < Nullish(snapshot.maximumMembers, 10)
                 /\ RosterOf(team', ret'.data.id) = RosterOf(team, ret'.data.id) \cup {ret'.auth}]_vars

\* A joinTeam has committed and its caller is on the roster of the team.
C10_Witness ==
    /\ ret # NoRet
    /\ ret.op = "joinTeam"
    /\ ret.code = "ok"
    /\ ret.auth \in RosterOf(team, ret.data.id)
    /\ team[ret.data.id].owner # ret.auth

\* --- disbanding (SpecDisband)

\* The step commits u1's leaveTeam while u1 owns t1.
DisbandStep ==
    /\ Returned
    /\ ret'.tag = "a"
    /\ ret'.code = "ok"
    /\ team["t1"].owner = "u1"

\* u1's leaveTeam has disbanded t1 (u2 makes no call: only the disband
\* resets its membership).
Disbanded == results["a"] = "ok" /\ system["u2"].team = Null

\* A joinTeam naming t1 arrives after the disband.
LaterJoinArrives(c) ==
    /\ Disbanded
    /\ c \in todo \ todo'
    /\ c.op = "joinTeam"
    /\ c.data.id = "t1"

DisbandEffect ==
    DisbandStep =>
        /\ team'["t1"] = NoTeamDoc
        /\ \A m \in RosterOf(team, "t1") : system'[m].team = Null

\* C8 as claimed: when the owner's leaveTeam succeeds the team is deleted
\* and every former member's teamId is null, and any joinTeam naming the
\* old team id that arrives later fails with not-found.
C8_DisbandedIdIsNotFound ==
    [][/\ DisbandEffect
       /\ \A c \in todo : LaterJoinArrives(c) => ret'.code = "not-found"]_vars

\* C8, amended: when the owner's leaveTeam succeeds the team is deleted and
\* every former member's teamId is null; a joinTeam naming the old id that
\* arrives later, from a caller who is in no team and supplies a password,
\* fails with not-found for as long as no createTeam has made a new team
\* under that id.
C8_DisbandedIdIsNotFoundUntilReused ==
    [][/\ DisbandEffect
       /\ \A c \in todo :
             (/\ LaterJoinArrives(c)
              /\ ~InTeam(system[c.auth])
              /\ Truthy(c.data.password)
              /\ ~team["t1"].exists)
             => ret'.code = "not-found"]_vars

\* After the disband a join naming the old id was refused with not-found.
C8_Witness ==
    /\ Disbanded
    /\ ~team["t1"].exists
    /\ ret # NoRet
    /\ ret.tag = "b"
    /\ ret.code = "not-found"

\* --- the order of joinTeam's checks (SpecRequests)

\* The error the claimed order of checks gives a joinTeam call, "none" if
\* every check passes.
ClaimedJoinError(userUid, data) ==
    IF InTeam(system[userUid]) THEN "failed-precondition"
    ELSE IF ~data.present THEN "invalid-argument"
    ELSE IF ~Truthy(data.id) \/ ~Truthy(data.password) THEN "invalid-argument"
    ELSE IF ~team[data.id].exists THEN "not-found"
    ELSE IF team[data.id].password # data.password THEN "unauthenticated"
    ELSE IF Len(team[data.id].members) >= Nullish(team[data.id].maximumMembers, 10)
    THEN "resource-exhausted"
    ELSE "none"

\* A joinTeam call of an authenticated caller arrives in this step.
JoinArrives(auth, data) ==
    /\ ret = NoRet
    /\ auth \in Users
    /\ \/ /\ ret' # NoRet
          /\ procs' = procs
          /\ ret'.op = "joinTeam" /\ ret'.auth = auth /\ ret'.data = data
       \/ \E p \in Procs :
             /\ procs[p].pc = "idle"
             /\ procs'[p].pc = "tx"
             /\ procs'[p].op = "joinTeam" /\ procs'[p].auth = auth /\ procs'[p].data = data

\* C9: joinTeam evaluates its preconditions in this order and reports the
\* first that fails: caller already in a team (failed-precondition), teamId
\* or password missing (invalid-argument), team does not exist (not-found),
\* password mismatch (unauthenticated), team full (resource-exhausted).
C9_JoinChecksInOrder ==
    [][\A auth \in AnyCaller : \A data \in AnyJoinRequest :
          JoinArrives(auth, data) => ret'.code = ClaimedJoinError(auth, data)]_vars

\* --- kickTeamMember's checks (SpecRequests)

\* The error the claimed checks give a kickTeamMember call, "none" if every
\* check passes.
ClaimedKickError(userUid, data) ==
    IF ~data.present THEN "invalid-argument"
    ELSE IF ~Truthy(data.kicked) \/ data.kicked = userUid THEN "invalid-argument"
    ELSE IF ~InTeam(system[userUid]) THEN "failed-precondition"
    ELSE IF team[system[userUid].team].owner # userUid THEN "permission-denied"
    ELSE IF data.kicked \notin Roster(system[userUid].team) THEN "not-found"
    ELSE "none"

\* A kickTeamMember call of an authenticated caller arrives in this step.
KickArrives(auth, data) ==
    /\ ret = NoRet
    /\ auth \in Users
    /\ \/ /\ ret' # NoRet
          /\ procs' = procs
          /\ ret'.op = "kickTeamMember" /\ ret'.auth = auth /\ ret'.data = data
       \/ \E p \in Procs :
             /\ procs[p].pc = "idle"
             /\ procs'[p].pc = "tx"
             /\ procs'[p].op = "kickTeamMember" /\ procs'[p].auth = auth
             /\ procs'[p].data = data

\* C11: kickTeamMember fails with invalid-argument when kickedId is missing
\* or is the caller, whatever the caller's membership; with
\* failed-precondition when the caller has no teamId; with permission-denied
\* when the caller does not own their team, even if kickedId is no member;
\* with not-found when the caller owns the team and kickedId is not in it.
C11_KickChecks ==
    [][\A auth \in AnyCaller : \A data \in AnyKickRequest :
          KickArrives(auth, data) => ret'.code = ClaimedKickError(auth, data)]_vars

\* --- effects of the operations (Spec)

\* The step commits a call of op.
Commits(op) == Returned /\ ret'.op = op /\ ret'.code = "ok"

\* Every membership but those of the users in us, and every team but t,
\* is left as it was.
OthersUnchanged(us, t) ==
    /\ \A u \in Users \ us : system'[u] = system[u]
    /\ \A t2 \in TeamIds \ {t} : team'[t2] = team[t2]

\* C12: a successful kickTeamMember removes exactly kickedId from the team's
\* members and sets the kicked user's membership to teamId null with
\* lastLeftTeam = now; the owner's and the other members' memberships and
\* the team's owner, password and maximumMembers are unchanged, and the team
\* record still exists, also when the owner is the only member left.
C12_KickEffect ==
    [][Commits("kickTeamMember") =>
          LET kicked == ret'.data.kicked
              t == system[ret'.auth].team
          IN  /\ kicked \in Roster(t)
              /\ team'[t] = [team[t] EXCEPT !.members = arrayRemove(@, kicked)]
              /\ RosterOf(team', t) = Roster(t) \ {kicked}
              /\ team'[t].exists
              /\ system'[kicked] = SystemDocData(Null, <<now>>)
              /\ OthersUnchanged({kicked}, t)]_vars

\* A kick has left the owner alone on the roster of a team that still exists.
C12_Witness ==
    /\ ret # NoRet
    /\ ret.op = "kickTeamMember"
    /\ ret.code = "ok"
    /\ system[ret.auth].team \in TeamIds
    /\ team[system[ret.auth].team].exists
    /\ team[system[ret.auth].team].members = <<ret.auth>>
    /\ system[ret.data.kicked] = SystemDocData(Null, <<now>>)

\* C13: a successful leaveTeam by a member who is not the owner removes
\* exactly the caller from the team's members and sets the caller's
\* membership to teamId null with lastLeftTeam = now; the team record
\* persists with its owner, password and maximumMembers, and no other
\* user's membership changes.
C13_MemberLeaveEffect ==
    [][(/\ Commits("leaveTeam")
        /\ ret'.auth \in Roster(system[ret'.auth].team)
        /\ team[system[ret'.auth].team].owner # ret'.auth)
       => LET t == system[ret'.auth].team
          IN  /\ team'[t] = [team[t] EXCEPT !.members = arrayRemove(@, ret'.auth)]
              /\ RosterOf(team', t) = Roster(t) \ {ret'.auth}
              /\ team'[t].exists
              /\ system'[ret'.auth] = SystemDocData(Null, <<now>>)
              /\ OthersUnchanged({ret'.auth}, t)]_vars

\* A member other than the owner u1 has left t1, which is still there (t1
\* is never created again, so u1 has not left it).
C13_Witness ==
    /\ ret # NoRet
    /\ ret.op = "leaveTeam"
    /\ ret.code = "ok"
    /\ ret.auth # "u1"
    /\ team["t1"].exists
    /\ team["t1"].owner = "u1"
    /\ Roster("t1") \cap (Members \ {ret.auth}) = Members \ {ret.auth}

\* The body of the returning call ran in this step and threw.
BodyThrew ==
    /\ Returned
    /\ ret'.attempts >= 1
    /\ \/ procs' = procs
       \/ \E p \in Procs :
             /\ procs[p].pc = "tx"
             /\ procs[p].attempts < MaxAttempts
             /\ procs'[p] = IdleProc
             /\ ret'.code # "ok"

\* C14: leaveTeam called by a user whose membership has no teamId (absent or
\* null) fails with failed-precondition and changes no record.
C14_LeaveWithoutTeam ==
    [][/\ (/\ BodyThrew
           /\ ret'.op = "leaveTeam"
           /\ ~InTeam(system[ret'.auth]))
          => (/\ ret'.code = "failed-precondition"
              /\ system' = system
              /\ team' = team)
       /\ Commits("leaveTeam") => InTeam(system[ret'.auth])]_vars

\* A user whose membership was reset to null (teamId null, not absent) is
\* refused.
C14_Witness ==
    /\ ret # NoRet
    /\ ret.op = "leaveTeam"
    /\ ret.code = "failed-precondition"
    /\ system[ret.auth].team = Null

\* C15: a successful joinTeam adds exactly the caller to the named team's
\* members and sets the caller's membership teamId to that team; the team's
\* owner, password, maximumMembers and previous members, every other team
\* record and every other user's membership are unchanged.
C15_JoinEffect ==
    [][Commits("joinTeam") =>
          LET t == ret'.data.id
              u == ret'.auth
          IN  /\ u \notin Roster(t)
              /\ team'[t] = [team[t] EXCEPT !.members = Append(@, u)]
              /\ system'[u] = [system[u] EXCEPT !.team = t]
              /\ OthersUnchanged({u}, t)]_vars

\* u5 has joined t1 next to its two members, while team t2 exists.
C15_Witness ==
    /\ ret # NoRet
    /\ ret.tag = "b"
    /\ ret.code = "ok"
    /\ team["t1"].members = <<"u1", "u2", "u5">>
    /\ system["u5"].team = "t1"
    /\ team["t2"].exists

\* C16: a successful createTeam creates exactly one new team record, with
\* owner = caller, members = {caller} and the supplied password when one is
\* supplied, sets the caller's membership teamId to the new id, and changes
\* no other team record and no other user's membership.
C16_CreateEffect ==
    [][Commits("createTeam") =>
          LET t == ret'.team
              u == ret'.auth
          IN  /\ ~team[t].exists
              /\ team'[t].exists
              /\ team'[t].owner = u
              /\ team'[t].members = <<u>>
              /\ Truthy(ret'.data.password) => team'[t].password = ret'.data.password
              /\ system'[u] = [system[u] EXCEPT !.team = t]
              /\ OthersUnchanged({u}, t)]_vars

\* C17: createTeam stores maximumMembers equal to the integer the caller
\* supplies whenever one is supplied, and stores 10 exactly when none is.
C17_StoredMaximumMembers ==
    [][Commits("createTeam") =>
          team'[ret'.team].maximumMembers =
              (IF ret'.data.maximumMembers = <<>> THEN <<10>> ELSE ret'.data.maximumMembers)]_vars

\* --- createTeam's result (SpecCreateRetry)

\* C18: the team id and password a successful createTeam returns are the id
\* and password of the team record that was committed and that the caller's
\* membership points to, also when the transaction body ran more than once
\* (each run generating a fresh id and password).
C18_ReturnedTeamIsCommitted ==
    [][Commits("createTeam") =>
          /\ ret'.team \in TeamIds
          /\ team'[ret'.team].exists
          /\ team'[ret'.team].owner = ret'.auth
          /\ team'[ret'.team].password = ret'.password
          /\ system'[ret'.auth].team = ret'.team]_vars

\* u1's createTeam committed on the second run of its body.
C18_Witness ==
    /\ ret # NoRet
    /\ ret.tag = "a"
    /\ ret.code = "ok"
    /\ ret.attempts = 2
    /\ system["u1"].team = ret.team
    /\ team[ret.team].password = ret.password

\* --- the cooldown (SpecCooldown)

\* A createTeam call of an authenticated caller arrives in this step.
CreateArrives(auth, data) ==
    /\ ret = NoRet
    /\ auth \in Users
    /\ \/ /\ ret' # NoRet
          /\ procs' = procs
          /\ ret'.op = "createTeam" /\ ret'.auth = auth /\ ret'.data = data
       \/ \E p \in Procs :
             /\ procs[p].pc = "idle"
             /\ procs'[p].pc = "tx"
             /\ procs'[p].op = "createTeam" /\ procs'[p].auth = auth
             /\ procs'[p].data = data

\* C19: a user who has left a team and is in no team is refused by
\* createTeam with failed-precondition for as long as less than 5 minutes
\* have passed since lastLeftTeam; once 5 minutes have passed the same call
\* is accepted: its writes are staged and commit (it fails only if the id
\* generator throws, with internal).
C19_CooldownWindow ==
    [][/\ \A auth \in Callers : \A data \in CreateRequests :
             (/\ CreateArrives(auth, data)
              /\ ~InTeam(system[auth])
              /\ system[auth].lastLeftTeam # <<>>)
             => IF now - system[auth].lastLeftTeam[1] < CooldownMillis
                THEN /\ ret'.code = "failed-precondition"
                     /\ system' = system
                     /\ team' = team
                ELSE \/ ret' = NoRet /\ procs'[1].pc = "tx"
                     \/ ret'.code = "internal"
       /\ (procs[1].pc = "tx" /\ procs[1].op = "createTeam" /\ ret = NoRet)
             => ENABLED Commit(1)]_vars

\* A createTeam has succeeded exactly 5 minutes after its caller left a team.
C19_Witness ==
    /\ ret # NoRet
    /\ ret.op = "createTeam"
    /\ ret.code = "ok"
    /\ system[ret.auth].lastLeftTeam # <<>>
    /\ now - system[ret.auth].lastLeftTeam[1] = CooldownMillis

\* --- lastLeftTeam (SpecRoster)

\* createTeam by u, were it called now on the memberships sys, would be
\* refused with failed-precondition.
CreateRefused(u, sys) ==
    \A rnd \in Random :
        LET out == _createTeamLogic(u, CreateTeamData("p1", <<>>), sys, now, rnd)
        IN  ~out.staged /\ out.error = HttpsError("failed-precondition")

\* C20: whenever a user stops being a member of a team, by the user's own
\* leaveTeam as a member or as the owner, by being kicked, or by the owner
\* disbanding the team, the user's lastLeftTeam is set to the time of that
\* operation (and teamId to null), so that createTeam by that user is
\* refused at that time.
C20_LeavingSetsLastLeftTeam ==
    [][\A u \in Users : \A t \in TeamIds :
          (/\ Commits("leaveTeam") \/ Commits("kickTeamMember")
           /\ u \in Roster(t)
           /\ u \notin RosterOf(team', t))
          => /\ system'[u] = SystemDocData(Null, <<now>>)
             /\ CreateRefused(u, system')]_vars

\* The owner has disbanded t1 after some time: all three members left at
\* that time.
C20_Witness ==
    /\ ret # NoRet
    /\ ret.op = "leaveTeam"
    /\ ret.code = "ok"
    /\ ret.auth = "u1"
    /\ now = CooldownMillis
    /\ ~team["t1"].exists
    /\ \A u \in Members : system[u] = SystemDocData(Null, <<now>>)

\* --- owners and rosters (Spec)

\* C21: for as long as a team record exists its owner field keeps the value
\* it was created with and the owner is one of its members; no call removes
\* the owner from the members of a record that stays.
C21_OwnerStaysInMembers ==
    [][\A t \in TeamIds :
          /\ team'[t].exists => includes(team'[t].members, team'[t].owner)
          /\ (team[t].exists /\ team'[t].exists) => team'[t].owner = team[t].owner]_vars

\* C22: no team record exists with an empty members set, and no team record
\* exists whose owner's membership does not name it.
C22_NoOrphanedRoster ==
    \A t \in TeamIds :
        team[t].exists =>
            /\ team[t].members # <<>>
            /\ team[t].owner \in Users
            /\ system[team[t].owner].team = t

\* C23: a team record is deleted only by a successful leaveTeam of its owner;
\* a user other than the caller is removed from a team's members only by a
\* successful kickTeamMember of that team's owner or by the owner's disband;
\* no call by a non-owner changes another user's membership.
C23_OnlyOwnerRemovesOthers ==
    [][/\ \A t \in TeamIds :
             (team[t].exists /\ ~team'[t].exists)
             => Commits("leaveTeam") /\ ret'.auth = team[t].owner
       /\ \A t \in TeamIds : \A u \in Roster(t) \ RosterOf(team', t) :
             \/ Returned /\ ret'.auth = u
             \/ /\ Commits("kickTeamMember") \/ Commits("leaveTeam")
                /\ ret'.auth = team[t].owner
       /\ \A u \in Users :
             system'[u] # system[u]
             => /\ Returned
                /\ ret'.code = "ok"
                /\ \/ ret'.auth = u
                   \/ \E t \in TeamIds : team[t].exists /\ team[t].owner = ret'.auth]_vars

\* --- errors (SpecRequests)

\* C24: a call without caller identity fails with unauthenticated before any
\* transaction is started: the transaction body is never executed, no record
\* is written, and the error is the same whatever the payload and the
\* records are.
C24_UnauthenticatedFirst ==
    [][/\ (Returned /\ ret'.auth = NoAuth)
          => /\ ret'.code = "unauthenticated"
             /\ ret'.typed
             /\ ret'.attempts = 0
             /\ procs' = procs
             /\ system' = system
             /\ team' = team
       /\ \A p \in Procs : procs'[p].pc = "tx" => procs'[p].auth # NoAuth]_vars

\* kickTeamMember without identity and without payload was refused while a
\* team exists.
C24_Witness ==
    /\ ret # NoRet
    /\ ret.auth = NoAuth
    /\ ret.op = "kickTeamMember"
    /\ ret.data = NoData
    /\ ret.code = "unauthenticated"
    /\ \E t \in TeamIds : team[t].exists

\* C25: every call ends with its success object or with a typed error whose
\* kind is one of the taxonomy kinds, for every request payload (an absent
\* payload and absent fields included); a call that fails never returns a
\* success value.
C25_SuccessOrTypedError ==
    [][Returned =>
          \/ /\ ret'.code = "ok"
             /\ \E p \in Procs : procs[p].pc = "tx" /\ ~procs[p].invalid /\ procs'[p] = IdleProc
          \/ /\ ret'.typed
             /\ ret'.code \in ErrorCodes]_vars

\* The last attempt of the returning call failed on a conflict in this step.
GaveUp ==
    /\ Returned
    /\ \E p \in Procs :
          /\ procs[p].pc = "tx"
          /\ procs[p].invalid
          /\ procs[p].attempts = MaxAttempts
          /\ procs'[p] = IdleProc

\* The caller receives kind internal with message as details.
SurfacedAsInternal(message) ==
    /\ ret'.typed
    /\ ret'.code = "internal"
    /\ ret'.details = message

\* C26: an exception that is no typed error and is raised while a
\* transaction runs (by the body, the id generator or the store giving up
\* after conflicts) reaches the caller as kind internal with the original
\* message as details and no write committed; a typed error raised in the
\* transaction reaches the caller with its kind unchanged.
C26_UntypedBecomesInternal ==
    [][/\ BodyThrew
          => /\ \E rnd \in Random \cup {NoRandom} :
                   LET out == UpdateFunction(ret'.op, ret'.auth, ret'.data,
                                             system, team, now, rnd)
                   IN  /\ ~out.staged
                       /\ IF out.error.typed
                          THEN ret'.typed /\ ret'.code = out.error.code
                          ELSE SurfacedAsInternal(out.error.code)
             /\ system' = system
             /\ team' = team
       /\ GaveUp
          => /\ SurfacedAsInternal("ABORTED")
             /\ system' = system
             /\ team' = team]_vars

\* ------------------------------------------------------------------------
\* SpecScenario: three users, none in a team, make five calls one after the
\* other: the owner creates a team with password p1 and maximumMembers 2
\* (a), a member joins it with p1 (b), a third user tries to join it with p1
\* (c), the owner kicks the member (d), the owner leaves (e).  The joiners
\* name the team the owner's membership names at that time.

StepOf(tag) ==
    CASE tag = "a" -> 1 [] tag = "b" -> 2 [] tag = "c" -> 3 [] tag = "d" -> 4 [] tag = "e" -> 5

ScenarioCalls(o, m, third) ==
    {[tag |-> "a", op |-> "createTeam", auth |-> o, owner |-> o,
      data |-> CreateTeamData("p1", <<2>>)],
     [tag |-> "b", op |-> "joinTeam", auth |-> m, owner |-> o, data |-> NoData],
     [tag |-> "c", op |-> "joinTeam", auth |-> third, owner |-> o, data |-> NoData],
     [tag |-> "d", op |-> "kickTeamMember", auth |-> o, owner |-> o,
      data |-> KickTeamMemberData(m)],
     [tag |-> "e", op |-> "leaveTeam", auth |-> o, owner |-> o, data |-> NoData]}

InitScenario ==
    /\ system = [u \in Users |-> NoSystemDoc]
    /\ team = [t \in TeamIds |-> NoTeamDoc]
    /\ now = 0
    /\ ticks = 0
    /\ procs = [p \in Procs |-> IdleProc]
    /\ ret = NoRet
    /\ \E o \in Users : \E m \in Users \ {o} : \E third \in Users \ {o, m} :
          todo = ScenarioCalls(o, m, third)
    /\ results = [t \in Tags |-> "none"]

\* The next call of the scenario arrives once the one before has returned.
ScenarioStep ==
    /\ \A p \in Procs : procs[p].pc = "idle"
    /\ \E c \in todo :
          /\ \A d \in todo : StepOf(c.tag) <= StepOf(d.tag)
          /\ LET data == IF c.op = "joinTeam"
                         THEN JoinTeamData(system[c.owner].team, "p1")
                         ELSE c.data
             IN  \E rnd \in (IF c.op = "createTeam" THEN RandomFor(data) ELSE {NoRandom}) :
                    Begin(1, c.tag, c.op, c.auth, data, rnd)
          /\ todo' = todo \ {c}

NextScenario ==
    \/ ScenarioStep
    \/ CommitCall
    \/ Respond
    \/ CooldownPasses

SpecScenario == InitScenario /\ [][NextScenario]_vars

\* The call with this tag returns in this step, in a run where the owner's
\* createTeam has succeeded.
ScenarioReturns(tag) ==
    /\ Returned
    /\ ret'.tag = tag
    /\ results'["a"] = "ok"

\* C27: in the scenario every step has the outcome stated: the team is
\* created with maximumMembers 2; the member's join succeeds and members =
\* {O, M}; the third user's join fails with resource-exhausted; after the
\* kick M's teamId is null and members = {O}; after O's leave the team
\* record is deleted and O's teamId is null.
C27_Scenario ==
    [][/\ (Returned /\ ret'.tag = "a")
          => \/ /\ ret'.code = "ok"
                /\ team'[ret'.team] = TeamDocData(ret'.auth, "p1", <<2>>, <<ret'.auth>>)
                /\ system'[ret'.auth].team = ret'.team
             \/ ret'.code = "internal" /\ ret'.details = "Error"
       /\ ScenarioReturns("b")
          => /\ ret'.code = "ok"
             /\ ret'.data.id \in TeamIds
             /\ team'[ret'.data.id].members = <<team[ret'.data.id].owner, ret'.auth>>
             /\ system'[ret'.auth].team = ret'.data.id
       /\ ScenarioReturns("c")
          => /\ ret'.code = "resource-exhausted"
             /\ system' = system
             /\ team' = team
       /\ ScenarioReturns("d")
          => /\ ret'.code = "ok"
             /\ system'[ret'.data.kicked].team = Null
             /\ team'[system[ret'.auth].team].exists
             /\ team'[system[ret'.auth].team].members = <<ret'.auth>>
       /\ ScenarioReturns("e")
          => /\ ret'.code = "ok"
             /\ ~team'[system[ret'.auth].team].exists
             /\ system'[ret'.auth].team = Null
             /\ \A t \in TeamIds : ~team'[t].exists]_vars

\* The five calls have returned as stated and no team is left.
C27_Witness ==
    /\ results = [a |-> "ok", b |-> "ok", c |-> "resource-exhausted", d |-> "ok", e |-> "ok"]
    /\ todo = {}
    /\ \A t \in TeamIds : ~team[t].exists
    /\ \E o \in Users : \E m \in Users \ {o} :
          /\ system[o].team = Null
          /\ system[m].team = Null

\* --- the generated password (SpecRequests)

\* The password createTeam is to use when the caller supplies none and the
\* generator yields generated.
ClaimedPassword(generated) ==
    CASE generated = GenThrows -> "ERROR_PASS_456"
      [] generated \in {"", "abc"} -> "DEBUG_PASS_123"
      [] OTHER -> generated

\* C28: when createTeam is called without a password and the password
\* generation throws or yields a too-short string, createTeam does not fail:
\* it commits the team with a fixed placeholder password and returns that
\* placeholder; the password generator never throws and never returns an
\* empty string.
C28_PlaceholderPassword ==
    [][/\ \A generated \in GeneratedPasswords :
             /\ generateSecurePassword(generated) \notin {GenThrows, "", Undefined, Null}
             /\ generateSecurePassword(generated) = ClaimedPassword(generated)
       /\ \A auth \in Users : \A data \in AnyCreateRequest :
             (/\ CreateArrives(auth, data)
              /\ data.present
              /\ ~Truthy(data.password)
              /\ ~InTeam(system[auth])
              /\ ~InCooldown(system[auth].lastLeftTeam, now))
             => /\ \A rnd \in Random :
                      rnd.teamId \in TeamIds
                      => LET out == _createTeamLogic(auth, data, system, now, rnd)
                         IN  /\ out.staged
                             /\ out.finalTeamPassword = ClaimedPassword(rnd.generated)
                             /\ out.writes[1].password = ClaimedPassword(rnd.generated)
                /\ \E rnd \in Random :
                      IF rnd.teamId = GenThrows
                      THEN ret'.code = "internal" /\ ret'.details = "Error"
                      ELSE /\ ret' = NoRet
                           /\ procs'[1].pc = "tx"
                           /\ procs'[1].finalTeamPassword = ClaimedPassword(rnd.generated)
                           /\ procs'[1].writes[1].password = ClaimedPassword(rnd.generated)
       /\ (procs[1].pc = "tx" /\ procs[1].op = "createTeam" /\ ret = NoRet)
             => ENABLED Commit(1)
       /\ (Commits("createTeam") /\ ~Truthy(ret'.data.password))
             => /\ ret'.password = procs[1].finalTeamPassword
                /\ team'[ret'.team].exists
                /\ team'[ret'.team].password = ret'.password]_vars

\* A createTeam without password has committed a team with the placeholder
\* of a throwing generator and returned it.
C28_Witness ==
    /\ ret # NoRet
    /\ ret.op = "createTeam"
    /\ ret.code = "ok"
    /\ ret.data.password = Undefined
    /\ ret.password = "ERROR_PASS_456"
    /\ team[ret.team].password = "ERROR_PASS_456"
    /\ system[ret.auth].team = ret.team

\* ------------------------------------------------------------------------
\* SpecCreateRace: u3 owns team t2; u1, in no team, calls createTeam twice,
\* once with a password and once without, the two calls in any order and
\* overlap, while time passes.

InitCreateRace ==
    /\ system = [u \in Users |-> IF u = "u3" THEN SystemDocData("t2", <<>>) ELSE NoSystemDoc]
    /\ team = [t \in TeamIds |->
                 IF t = "t2" THEN TeamDocData("u3", "p2", <<10>>, <<"u3">>) ELSE NoTeamDoc]
    /\ now = 0
    /\ ticks = 0
    /\ procs = [p \in Procs |-> IdleProc]
    /\ ret = NoRet
    /\ todo = {[tag |-> "a", op |-> "createTeam", auth |-> "u1",
                data |-> CreateTeamData("p1", <<>>)],
               [tag |-> "b", op |-> "createTeam", auth |-> "u1",
                data |-> CreateTeamData(Undefined, <<2>>)]}
    /\ results = [t \in Tags |-> "none"]

NextCreateRace ==
    \/ Arrive
    \/ CommitStep
    \/ RetryStep
    \/ Respond
    \/ CooldownPasses

SpecCreateRace == InitCreateRace /\ [][NextCreateRace]_vars

\* Both createTeam calls have returned.
CreateRaceDone ==
    /\ todo = {}
    /\ \A p \in Procs : procs[p].pc = "idle"

\* The teams u owns.
OwnedBy(u) == {t \in TeamIds : team[t].exists /\ team[t].owner = u}

\* C29: two concurrent createTeam calls by the same caller, who is in no
\* team, end with exactly one success and one failed-precondition failure
\* (the id generator not failing, and neither call running out of
\* attempts); afterwards exactly one team record owned by the caller exists
\* and the caller's membership names it.
C29_OneCreateWins ==
    /\ \A p \in Procs :
          (procs[p].pc = "tx" /\ procs[p].invalid) => procs[p].attempts < MaxAttempts
    /\ (CreateRaceDone /\ results["a"] # "internal" /\ results["b"] # "internal")
       => /\ \/ results["a"] = "ok" /\ results["b"] = "failed-precondition"
             \/ results["a"] = "failed-precondition" /\ results["b"] = "ok"
          /\ Cardinality(OwnedBy("u1")) = 1
          /\ system["u1"].team \in OwnedBy("u1")

\* The second call returned failed-precondition from the second run of its
\* body, the first one having committed while it was pending.
C29_Witness ==
    /\ CreateRaceDone
    /\ results["a"] = "ok"
    /\ results["b"] = "failed-precondition"
    /\ ret # NoRet
    /\ ret.tag = "b"
    /\ ret.attempts = 2
    /\ Cardinality(OwnedBy("u1")) = 1

\* ------------------------------------------------------------------------
\* SpecLive: concurrent calls of the four operations by two users, with a
\* store that answers: the commit request of every pending transaction is
\* eventually answered (it commits, or fails on a conflict and the body runs
\* again or runTransaction gives up), and every response is delivered.

LiveCreateRequests == {CreateTeamData("p1", <<>>)}

LiveJoinRequests == {JoinTeamData(i, "p1") : i \in TeamIds}

LiveCreate == \E p \in 1 .. MaxCalls : createTeam(p, Callers, LiveCreateRequests)

LiveJoin == \E p \in 1 .. MaxCalls : joinTeam(p, Callers, LiveJoinRequests)

LiveLeave == \E p \in 1 .. MaxCalls : leaveTeam(p, Callers)

LiveKick == \E p \in 1 .. MaxCalls : kickTeamMember(p, Callers, KickRequests)

NextLive ==
    \/ LiveCreate
    \/ LiveJoin
    \/ LiveLeave
    \/ LiveKick
    \/ CommitStep
    \/ RetryStep
    \/ GiveUpStep
    \/ Respond

\* The store's answer to the commit request of the call in slot p.
TransactionStep(p) == Commit(p) \/ Retry(p) \/ GiveUp(p)

SpecLive ==
    /\ Init
    /\ [][NextLive]_vars
    /\ WF_vars(Respond)
    /\ \A p \in 1 .. MaxCalls : SF_vars(TransactionStep(p))

\* C30: with a store that eventually answers every commit request, every
\* call eventually returns a success or an error: no call runs its body more
\* than MaxAttempts times, and the answer to a pending call never depends on
\* another call's progress.
C30_EveryCallReturns ==
    /\ [](\A p \in Procs :
             procs[p].pc = "tx"
             => /\ procs[p].attempts <= MaxAttempts
                /\ ret = NoRet => ENABLED TransactionStep(p))
    /\ \A p \in Procs : (procs[p].pc = "tx") ~> (procs[p].pc = "idle")

\* A call has returned after its last attempt failed on a conflict, while
\* another call is pending.
C30_Witness ==
    /\ ret # NoRet
    /\ ret.code = "internal"
    /\ ret.details = "ABORTED"
    /\ ret.attempts = MaxAttempts
    /\ \E p \in Procs : procs[p].pc = "tx"

\* --- rosters (Spec)

\* No user id occurs twice in the members of tm[t].
DuplicateFree(tm) ==
    \A t \in TeamIds : \A i, j \in DOMAIN tm[t].members :
        tm[t].members[i] = tm[t].members[j] => i = j

\* C31: the members of every team record contain no user id more than once:
\* a joinTeam that commits adds a user who was not listed (its test of the
\* caller's membership keeps listed users out), and no other write adds one.
C31_MembersDuplicateFree ==
    [][/\ DuplicateFree(team)
       /\ DuplicateFree(team')
       /\ Commits("joinTeam") => ret'.auth \notin Roster(ret'.data.id)
       /\ \A t \in TeamIds : \A u \in RosterOf(team', t) \ Roster(t) :
             /\ Returned
             /\ ret'.code = "ok"
             /\ ret'.auth = u
             /\ ret'.op \in {"joinTeam", "createTeam"}]_vars

\* A user who left a team has joined a team again, next to its owner.
C31_Witness ==
    /\ ret # NoRet
    /\ ret.op = "joinTeam"
    /\ ret.code = "ok"
    /\ system[ret.auth].lastLeftTeam # <<>>
    /\ Len(team[ret.data.id].members) = 2
    /\ includes(team[ret.data.id].members, ret.auth)

\* ------------------------------------------------------------------------
\* SpecHttp: calls one at a time by two users, createTeam through the
\* callable and through the HTTP entry point (any method, any token, with
\* and without body), with the clock of SpecCooldown.

HttpMethods == {"OPTIONS", "GET", "POST"}

HttpTokens == {Undefined, InvalidToken, "u1", "u2"}

HttpBodies == {NoData, CreateTeamData("p1", <<>>)}

HttpRequests ==
    {HttpRequest(method, token, body) :
        method \in HttpMethods, token \in HttpTokens, body \in HttpBodies}

CallableCreate == createTeam(1, Callers, HttpBodies)

HttpCreate == createTeamHttp(1, HttpRequests)

NextHttp ==
    \/ CallableCreate
    \/ HttpCreate
    \/ TimedJoin
    \/ TimedLeave
    \/ CommitCall
    \/ Respond
    \/ TimePasses

SpecHttp == Init /\ [][NextHttp]_vars

\* A POST with a valid token for uid and the body data reaches
\* _createTeamLogic in this step.
HttpCreateArrives(uid, data) ==
    /\ ret = NoRet
    /\ \/ /\ ret' # NoRet
          /\ procs' = procs
          /\ ret'.op = "createTeamHttp" /\ ret'.attempts = 1
          /\ ret'.auth = uid /\ ret'.data = data
       \/ /\ procs[1].pc = "idle"
          /\ procs'[1].pc = "tx"
          /\ procs'[1].op = "createTeamHttp"
          /\ procs'[1].auth = uid /\ procs'[1].data = data

\* The team ret.team was created for the caller in this step.
TeamCreated ==
    /\ ret'.code = "ok"
    /\ ret'.team \in TeamIds
    /\ team'[ret'.team].exists
    /\ team'[ret'.team].owner = ret'.auth
    /\ team'[ret'.team].password = ret'.password
    /\ system'[ret'.auth].team = ret'.team

\* What the two entry points have in common: for the same caller, payload
\* and records the same checks before the transaction, the same body and
\* the same error handling, and an HTTP request that reaches the body does
\* what the callable does.
SameAsCallable ==
    /\ \A uid \in Callers : \A data \in HttpBodies :
          /\ BeforeTransaction("createTeamHttp", uid, data)
                = BeforeTransaction("createTeam", uid, data)
          /\ \A rnd \in RandomFor(data) :
                LET out == UpdateFunction("createTeam", uid, data, system, team, now, rnd)
                IN  /\ UpdateFunction("createTeamHttp", uid, data, system, team, now, rnd) = out
                    /\ Caught("createTeamHttp", data, out.error)
                          = Caught("createTeam", data, out.error)
          /\ HttpCreateArrives(uid, data)
             => \E rnd \in RandomFor(data) :
                   LET out == UpdateFunction("createTeam", uid, data, system, team, now, rnd)
                   IN  IF out.staged
                       THEN /\ procs'[1] = Pending(Free, "createTeamHttp", uid, data, 1, out)
                            /\ ret' = NoRet
                            /\ system' = system /\ team' = team
                       ELSE /\ ret'.code = onCall(Caught("createTeam", data, out.error))
                            /\ system' = system /\ team' = team
    /\ (procs[1].pc = "tx" /\ procs[1].op = "createTeamHttp" /\ Returned)
       => /\ TeamCreated
          /\ ret'.team = procs[1].createdTeam
          /\ ret'.password = procs[1].finalTeamPassword
          /\ LET db == ApplyWrites([system |-> system, team |-> team], procs[1].writes, now)
             IN  system' = db.system /\ team' = db.team

\* C32 as stated: the two entry points apply the same preconditions and
\* produce the same record changes and success result, and createTeamHttp
\* answers with a 2xx status only when the team was created and with a
\* non-2xx status on every failure.
C32_HttpSuccessOnlyWhenCreated ==
    [][/\ SameAsCallable
       /\ (Returned /\ ret'.op = "createTeamHttp")
          => IF HttpStatus(ret') \in 200 .. 299
             THEN TeamCreated
             ELSE system' = system /\ team' = team]_vars

\* C32, amended: as stated for every request that is not a CORS preflight;
\* an OPTIONS request is answered 200 with no record read or written.
C32_HttpPostSuccessOnlyWhenCreated ==
    [][/\ SameAsCallable
       /\ (Returned /\ ret'.op = "createTeamHttp")
          => IF ret'.code = "preflight"
             THEN HttpStatus(ret') = 200 /\ system' = system /\ team' = team
             ELSE IF HttpStatus(ret') \in 200 .. 299
             THEN TeamCreated
             ELSE system' = system /\ team' = team]_vars

\* The HTTP entry point has created a team for a user who had left one, at
\* the end of the cooldown, and answered 200.
C32_Witness ==
    /\ ret # NoRet
    /\ ret.op = "createTeamHttp"
    /\ HttpStatus(ret) = 200
    /\ ret.code = "ok"
    /\ team[ret.team].owner = ret.auth
    /\ system[ret.auth].lastLeftTeam # <<>>
    /\ now - system[ret.auth].lastLeftTeam[1] = CooldownMillis

\* --- rosters and memberships (Spec)

\* C33: every user id listed in a team's members has a membership whose
\* teamId is that team: no roster lists a user whose membership is absent,
\* null or names another team.
C33_RosterNamesMembership ==
    \A t \in TeamIds : \A u \in Roster(t) : system[u].team = t

\* A kick has just reset the kicked user's membership, and no roster lists
\* that user any more, while the owner's team still lists the owner.
C33_Witness ==
    /\ ret # NoRet
    /\ ret.op = "kickTeamMember"
    /\ ret.code = "ok"
    /\ system[ret.data.kicked].team = Null
    /\ \A t \in TeamIds : ret.data.kicked \notin Roster(t)
    /\ \E t \in TeamIds : team[t].exists /\ Roster(t) = {ret.auth}

\* ------------------------------------------------------------------------
\* SpecJoinDisband: u1 owns team t1, alone or with the member u2; one user
\* who is in no team calls joinTeam for t1 with its password while u1 calls
\* leaveTeam, the two calls in any order and overlap, while time passes.

Outsiders == {"u3", "u4", "u5"}

InitJoinDisband ==
    /\ \E ms \in {<<"u1">>, <<"u1", "u2">>} :
          /\ system = [u \in Users |-> IF includes(ms, u) THEN SystemDocData("t1", <<>>)
                                       ELSE NoSystemDoc]
          /\ team = [t \in TeamIds |->
                       IF t = "t1" THEN TeamDocData("u1", "p1", <<10>>, ms) ELSE NoTeamDoc]
    /\ now = 0
    /\ ticks = 0
    /\ procs = [p \in Procs |-> IdleProc]
    /\ ret = NoRet
    /\ \E j \in Outsiders :
          todo = {[tag |-> "a", op |-> "leaveTeam", auth |-> "u1", data |-> NoData],
                  [tag |-> "b", op |-> "joinTeam", auth |-> j,
                   data |-> JoinTeamData("t1", "p1")]}
    /\ results = [t \in Tags |-> "none"]

NextJoinDisband ==
    \/ Arrive
    \/ CommitStep
    \/ RetryStep
    \/ Respond
    \/ CooldownPasses

SpecJoinDisband == InitJoinDisband /\ [][NextJoinDisband]_vars

\* Both calls have returned.
JoinDisbandDone ==
    /\ todo = {}
    /\ \A p \in Procs : procs[p].pc = "idle"

\* C34: when joinTeam(J, T) runs concurrently with the owner's leaveTeam
\* that disbands T, either the join fails with not-found, or the join
\* succeeds and the disband then sets J's teamId to null; in no state does
\* a membership name the deleted team (and neither call runs out of
\* attempts).
C34_JoinOrDisbandFirst ==
    /\ \A u \in Users : InTeam(system[u]) => team[system[u].team].exists
    /\ \A p \in Procs :
          (procs[p].pc = "tx" /\ procs[p].invalid) => procs[p].attempts < MaxAttempts
    /\ JoinDisbandDone
       => /\ results["a"] = "ok"
          /\ ~team["t1"].exists
          /\ \A u \in Users : ~InTeam(system[u])
          /\ \/ /\ results["b"] = "not-found"
                /\ \A j \in Outsiders : system[j] = NoSystemDoc
             \/ /\ results["b"] = "ok"
                /\ \E j \in Outsiders :
                      /\ system[j].team = Null
                      /\ system[j].lastLeftTeam = system["u1"].lastLeftTeam

\* The join committed while the disband was pending; the disband ran again
\* and reset the joiner with the others.
C34_Witness ==
    /\ JoinDisbandDone
    /\ results["b"] = "ok"
    /\ ret # NoRet
    /\ ret.tag = "a"
    /\ ret.code = "ok"
    /\ ret.attempts = 2
    /\ ~team["t1"].exists
    /\ \E j \in Outsiders : system[j] = SystemDocData(Null, <<now>>)

\* ------------------------------------------------------------------------
\* SpecKickLeave: u1 owns team t1 with the member u2; u3 may own team t2
\* (password p2).  u1 calls kickTeamMember for u2 (a) while u2 calls
\* leaveTeam (b) and, once that has returned, createTeam or joinTeam for t2
\* (c); time may pass by the cooldown.

Elsewhere ==
    {[op |-> "createTeam", data |-> CreateTeamData("p1", <<>>)],
     [op |-> "joinTeam", data |-> JoinTeamData("t2", "p2")]}

InitKickLeave ==
    /\ \E other \in BOOLEAN :
          /\ system = [u \in Users |->
                         CASE u \in {"u1", "u2"} -> SystemDocData("t1", <<>>)
                           [] u = "u3" /\ other -> SystemDocData("t2", <<>>)
                           [] OTHER -> NoSystemDoc]
          /\ team = [t \in TeamIds |->
                       CASE t = "t1" -> TeamDocData("u1", "p1", <<10>>, <<"u1", "u2">>)
                         [] t = "t2" /\ other -> TeamDocData("u3", "p2", <<10>>, <<"u3">>)
                         [] OTHER -> NoTeamDoc]
    /\ now = 0
    /\ ticks = 0
    /\ procs = [p \in Procs |-> IdleProc]
    /\ ret = NoRet
    /\ \E third \in Elsewhere :
          todo = {[tag |-> "a", op |-> "kickTeamMember", auth |-> "u1",
                   data |-> KickTeamMemberData("u2")],
                  [tag |-> "b", op |-> "leaveTeam", auth |-> "u2", data |-> NoData],
                  [tag |-> "c", op |-> third.op, auth |-> "u2", data |-> third.data]}
    /\ results = [t \in Tags |-> "none"]

\* The kick arrives at any time; u2 makes the calls b and c one after the
\* other.
KickLeaveArrive ==
    \E p \in Procs : \E c \in todo :
       /\ c.tag = "c" => results["b"] # "none"
       /\ \E rnd \in (IF c.op = "createTeam" THEN RandomFor(c.data) ELSE {NoRandom}) :
             Begin(p, c.tag, c.op, c.auth, c.data, rnd)
       /\ todo' = todo \ {c}

NextKickLeave ==
    \/ KickLeaveArrive
    \/ CommitStep
    \/ RetryStep
    \/ Respond
    \/ CooldownPasses

SpecKickLeave == InitKickLeave /\ [][NextKickLeave]_vars

\* C35: when the owner's kickTeamMember(M) runs concurrently with M's own
\* calls (leaveTeam, then createTeam or joinTeam elsewhere), exactly one of
\* kick and leave succeeds, and the kick commits only while M's membership
\* still names the owner's team and M's leave has not succeeded, so that it
\* never overwrites a later membership of M with null (and no call runs out
\* of attempts).
C35_KickOrLeave ==
    [][/\ (results'["a"] # "none" /\ results'["b"] # "none")
          => \/ results'["a"] = "ok" /\ results'["b"] = "failed-precondition"
             \/ results'["a"] \in {"not-found", "permission-denied"} /\ results'["b"] = "ok"
       /\ Commits("kickTeamMember")
          => /\ system["u2"].team = "t1"
             /\ includes(team["t1"].members, "u2")
             /\ results["b"] # "ok"
             /\ results["c"] = "none"
       /\ results["c"] = "ok" => system'["u2"].team = system["u2"].team
       /\ \A p \in Procs :
             (procs[p].pc = "tx" /\ procs[p].invalid) => procs[p].attempts < MaxAttempts
      ]_vars

\* The kick was pending while u2 left and joined t2; run again it fails
\* with not-found, and u2 is still a member of t2.
C35_Witness ==
    /\ ret # NoRet
    /\ ret.tag = "a"
    /\ ret.attempts = 2
    /\ ret.code = "not-found"
    /\ results["b"] = "ok"
    /\ results["c"] = "ok"
    /\ system["u2"].team = "t2"
    /\ includes(team["t2"].members, "u2")

\* --- joinTeam during the cooldown (SpecCooldown)

\* C36: the cooldown restricts createTeam only: a joinTeam call of a user
\* in no team whose lastLeftTeam is less than 5 minutes old, naming an
\* existing team that has room with its password, is staged and can commit,
\* and the commit makes the user a member; right after a kick the kicked
\* user's createTeam would be refused while joinTeam with the team's
\* unchanged password would pass every check.
C36_CooldownDoesNotStopJoin ==
    [][/\ \A auth \in Callers : \A data \in JoinRequests :
             (/\ JoinArrives(auth, data)
              /\ ~InTeam(system[auth])
              /\ InCooldown(system[auth].lastLeftTeam, now)
              /\ team[data.id].exists
              /\ ~WrongPassword(team[data.id], data)
              /\ ~TeamIsFull(team[data.id]))
             => /\ ret' = NoRet
                /\ procs'[1].pc = "tx"
       /\ (procs[1].pc = "tx" /\ procs[1].op = "joinTeam" /\ ret = NoRet)
             => ENABLED Commit(1)
       /\ Commits("joinTeam")
             => /\ system'[ret'.auth] =
                      SystemDocData(ret'.data.id, system[ret'.auth].lastLeftTeam)
                /\ includes(team'[ret'.data.id].members, ret'.auth)
       /\ \A data \in KickRequests :
             (Commits("kickTeamMember") /\ ret'.data = data)
             => LET t == system[ret'.auth].team
                IN  /\ team'[t].password = team[t].password
                    /\ CreateRefused(data.kicked, system')
                    /\ _joinTeamLogic(data.kicked, JoinTeamData(t, team[t].password),
                                      system', team').staged
      ]_vars

\* A user has joined a team of someone else at the very time the user's
\* lastLeftTeam was set, when createTeam would have been refused.
C36_Witness ==
    /\ ret # NoRet
    /\ ret.op = "joinTeam"
    /\ ret.code = "ok"
    /\ now > 0
    /\ system[ret.auth] = SystemDocData(ret.data.id, <<now>>)
    /\ team[ret.data.id].owner # ret.auth
    /\ includes(team[ret.data.id].members, ret.auth)

\* --- the strict cooldown test (SpecCooldown)

\* C37: the cooldown test is strict: a createTeam call of a user in no team
\* is refused with failed-precondition exactly when now - lastLeftTeam is
\* less than 5 minutes; when it is exactly 5 minutes or more, or
\* lastLeftTeam is absent, the call is staged and its commit, which is then
\* enabled, makes the caller the owner of the team it returns (unless the
\* id generator throws, which the caller sees as internal).
C37_StrictCooldown ==
    [][/\ \A auth \in Callers : \A data \in CreateRequests :
             (CreateArrives(auth, data) /\ ~InTeam(system[auth]))
             => LET l == system[auth].lastLeftTeam
                    inWindow == l # <<>> /\ now - l[1] < CooldownMillis
                IN  /\ ret'.code = "failed-precondition" <=> inWindow
                    /\ inWindow => system' = system /\ team' = team
                    /\ ~inWindow
                       => \/ ret' = NoRet /\ procs'[1].pc = "tx"
                          \/ ret'.code = "internal" /\ ret'.details = "Error"
       /\ (procs[1].pc = "tx" /\ procs[1].op = "createTeam" /\ ret = NoRet)
             => ENABLED Commit(1)
       /\ Commits("createTeam")
             => /\ system'[ret'.auth].team = ret'.team
                /\ team'[ret'.team].exists
                /\ team'[ret'.team].owner = ret'.auth
      ]_vars

\* A createTeam has been refused one millisecond before the end of the
\* cooldown.
C37_Witness ==
    /\ ret # NoRet
    /\ ret.op = "createTeam"
    /\ ret.code = "failed-precondition"
    /\ ~InTeam(system[ret.auth])
    /\ system[ret.auth].lastLeftTeam # <<>>
    /\ now - system[ret.auth].lastLeftTeam[1] = CooldownMillis - 1

\* --- lastLeftTeam is kept by createTeam and joinTeam (Spec)

\* C38: createTeam and joinTeam never clear or change a lastLeftTeam: a
\* user's lastLeftTeam changes only in the commit of a leaveTeam or a
\* kickTeamMember that takes that user, until then in a team, out of it
\* (the user's own leave, a kick, a disband); it is then set to the time of
\* the commit, which is not before its old value.
C38_LastLeftTeamKept ==
    [][/\ \A u \in Users :
             system'[u].lastLeftTeam # system[u].lastLeftTeam
             => /\ Commits("leaveTeam") \/ Commits("kickTeamMember")
                /\ InTeam(system[u])
                /\ system'[u] = SystemDocData(Null, <<now>>)
                /\ system[u].lastLeftTeam # <<>> => system[u].lastLeftTeam[1] <= now
       /\ (Commits("createTeam") \/ Commits("joinTeam"))
             => /\ system'[ret'.auth].lastLeftTeam = system[ret'.auth].lastLeftTeam
                /\ InTeam(system'[ret'.auth])
      ]_vars

\* A user who has left a team is, with the lastLeftTeam of that time, in a
\* team again, the cooldown over.
C38_Witness ==
    /\ ret # NoRet
    /\ ret.op \in {"createTeam", "joinTeam"}
    /\ ret.code = "ok"
    /\ InTeam(system[ret.auth])
    /\ system[ret.auth].lastLeftTeam # <<>>
    /\ system[ret.auth].lastLeftTeam[1] < now

\* --- createTeam and the existing teams (Spec)

\* C39: createTeam never overwrites or modifies an existing team record: no
\* team record that exists when a createTeam commits is changed by that
\* commit, so its owner, password and members survive.
C39_CreateKeepsExistingTeams ==
    [][Commits("createTeam") =>
          \A t \in TeamIds : team[t].exists => team'[t] = team[t]]_vars

====
